---- MODULE Spec2Model ----
(***************************************************************************)
(* Verification model of video_bitrate_viewer.py (rollingQP/BitrateViewer). *)
(*                                                                         *)
(* The program has five parts that are modelled here, each with its own    *)
(* specifications over the shared variables:                               *)
(*   SpecEngine  calculate_bitrate_parallel, _calculate_chunk,             *)
(*               _calculate_bitrate_single (the windowed bitrate engine)   *)
(*   Spec        CPUAffinityManager and the handlers of BitrateAnalyzer    *)
(*               that steer it, interleaved with the analysis thread       *)
(*   SpecWorker  the pool workers' _worker_init / _apply_current_affinity  *)
(*               polling inside _calculate_chunk                           *)
(*   SpecSeries  the analysis thread statement by statement, from the      *)
(*               installation of a long series to its replacement          *)
(*   SpecView    the viewport handlers (zoom, wheel, thumbnail drag)       *)
(*   SpecZoom    zoom alone, with the factors of the scenarios             *)
(*   SpecDecim   get_visible_data and prepare_thumbnail_data               *)
(*   SpecInstall the three assignments that install a series, against the  *)
(*               zoom buttons and the queued callbacks                     *)
(*   SpecPan     wheel zoom and thumbnail drags on a series of 50 samples  *)
(*   SpecSplit   the split of the time points into chunks                  *)
(*   SpecRun     one analysis run with the compute call stepped inside     *)
(*               the analysis thread, under fairness                       *)
(*   SpecFloat   the time points and windows of the engine in binary64,    *)
(*               for window_size 0.1                                       *)
(*                                                                         *)
(* Numbers.  Times are integers (seconds); window sizes are even, so that  *)
(* window_size / 2 is an integer and every float operation of the source   *)
(* on these values is exact.  A bitrate and a viewport fraction are exact  *)
(* rationals <<num, den>> in lowest terms (Rat).  SpecFloat alone carries  *)
(* binary64 values, as <<hi, lo>> counts of 2^-57.                         *)
(***************************************************************************)
EXTENDS Integers, Sequences, FiniteSets, TLC

VARIABLES
    \* ---- engine (calculate_bitrate_parallel) ----
    packets,        \* argument: the probed packet list
    duration,       \* argument: declared duration
    window_size,    \* argument
    num_workers,    \* argument
    e_pc,           \* position inside calculate_bitrate_parallel: "call" | "points" |
                    \* "split" | "pool" | "gather" | "done" ("idle": no call);
                    \* "points64" | "samples64" in the binary64 run
    frame_data,     \* local: sorted (pts, size) pairs
    time_points,    \* local
    chunks,         \* local
    futures,        \* per chunk: "pending" | "ok" (its worker has finished it) |
                    \* "ahead" (the last chunk, finished before the first one)
    results,        \* local: the list extended from the futures
    gather_i,       \* loop index of `for i, future in enumerate(futures)`
    returned,       \* the value returned to the caller (<<>> until then)
    raised,         \* TRUE iff an exception left calculate_bitrate_parallel
    path,           \* "none" | "empty" | "serial" | "parallel" | "fallback"
    \* ---- the session's series (BitrateAnalyzer fields) ----
    bitrate_data,   \* the Series: sequence of <<time, bitrate>>
    time_index,     \* [d[0] for d in bitrate_data]
    thumbnail_data, \* the overview decimation
    \* ---- one call of get_visible_data ----
    q_pc,           \* "idle" | "call" | "done" | "again" (called a second time)
    q_args,         \* <<view_start_time, view_end_time, max_points>>
    q_slice,        \* local visible_data before decimation
    q_out,          \* the returned list
    \* ---- CPUAffinityManager ----
    windows,        \* platform.system() == "Windows"
    supported,
    all_cores_mask, \* a mask is the set of its core indices; {} is mask 0
    e_cores_mask,
    current_target_mask,
    current_target_type,
    shared_mask,    \* shared_mask.value, the word the workers read
    main_affinity,  \* the affinity SetProcessAffinityMask gave the main process
    \* ---- BitrateAnalyzer: scheduling state and the two threads ----
    is_minimized,
    use_e_cores_when_minimized,
    analyzing,
    video_path,     \* the chosen file (what ffprobe reports for it), or NoFile
    select_btn,     \* "normal" | "disabled"
    window_combo,   \* "readonly" | "disabled"
    c_pc,           \* control (UI) thread: "idle" or the step of a setter
    c_set,          \* the setter it runs: "none" | "e" | "all"
    c_handler,      \* the handler that called the setter ("none" when idle)
    a_pc,           \* analysis threads: position of each in _analyze_thread
    a_result,       \* each one's result of calculate_bitrate_parallel
    after_queue,    \* callbacks queued with root.after(0, ...)
    \* ---- BitrateAnalyzer: viewport ----
    view_start,
    view_end,
    thumbnail_dragging,
    thumbnail_drag_mode,
    thumbnail_drag_start_x,
    thumbnail_drag_start_view,
    chart_info,
    thumbnail_info,
    pending_chart_draw,
    current_visible_data,
    view_ops,       \* number of viewport events so far (bounds the model)
    \* ---- a pool worker process ----
    w_pc,           \* "init" | "ready" | "compute" | "poll"
    w_i,            \* the loop index i of _calculate_chunk
    w_total,        \* len(time_points) of the chunk
    last_applied_mask,  \* the worker's global _last_applied_mask
    w_affinity,     \* the affinity the worker process runs with
    w_since,        \* time points processed since shared_mask last changed
    w_behind        \* shared_mask changed since the worker last read it

engineVars == <<packets, duration, window_size, num_workers, e_pc, frame_data,
                time_points, chunks, futures, results, gather_i, returned,
                raised, path>>

dataVars == <<bitrate_data, time_index, thumbnail_data>>

queryVars == <<q_pc, q_args, q_slice, q_out>>

schedVars == <<windows, supported, all_cores_mask, e_cores_mask,
               current_target_mask, current_target_type, shared_mask,
               main_affinity>>

appVars == <<is_minimized, use_e_cores_when_minimized,
             analyzing, video_path, select_btn, window_combo, c_pc, c_set,
             c_handler, a_pc, a_result, after_queue>>

viewVars == <<view_start, view_end, thumbnail_dragging, thumbnail_drag_mode,
              thumbnail_drag_start_x, thumbnail_drag_start_view, chart_info,
              thumbnail_info, pending_chart_draw, current_visible_data,
              view_ops>>

sessionVars == <<schedVars, appVars, viewVars>>

workerVars == <<w_pc, w_i, w_total, last_applied_mask, w_affinity, w_since,
                w_behind>>

nonEngineVars == <<dataVars, queryVars, sessionVars, workerVars>>

vars == <<engineVars, dataVars, queryVars, sessionVars, workerVars>>

----------------------------------------------------------------------------
(* Exact rationals                                                          *)

RECURSIVE GCD(_, _)
GCD(a, b) ==
    IF b = 0 THEN a ELSE GCD(b, a % b)

Abs(x) ==
    IF x < 0 THEN -x ELSE x

\* n/d in lowest terms with a positive denominator (d # 0).
Rat(n, d) ==
    LET g == GCD(Abs(n), Abs(d))
        s == IF d < 0 THEN -1 ELSE 1
    IN  <<(s * n) \div g, (s * d) \div g>>

\* The comparisons and sums bring both operands to the least common
\* denominator, which keeps the products small.
RatLeq(a, b) ==
    LET g == GCD(a[2], b[2])
    IN  a[1] * (b[2] \div g) <= b[1] * (a[2] \div g)

RatLt(a, b) ==
    LET g == GCD(a[2], b[2])
    IN  a[1] * (b[2] \div g) < b[1] * (a[2] \div g)

RatAdd(a, b) ==
    LET g == GCD(a[2], b[2])
    IN  Rat(a[1] * (b[2] \div g) + b[1] * (a[2] \div g), (a[2] \div g) * b[2])

RatNeg(a) ==
    <<-a[1], a[2]>>

RatSub(a, b) ==
    RatAdd(a, RatNeg(b))

RatMul(a, b) ==
    LET g1 == GCD(Abs(a[1]), b[2])
        g2 == GCD(Abs(b[1]), a[2])
    IN  Rat((a[1] \div g1) * (b[1] \div g2), (a[2] \div g2) * (b[2] \div g1))

\* a / b for b # 0
RatDiv(a, b) ==
    RatMul(a, Rat(b[2], b[1]))

RatMax(a, b) ==
    IF RatLeq(b, a) THEN a ELSE b

RatMin(a, b) ==
    IF RatLeq(a, b) THEN a ELSE b

Zero == <<0, 1>>
One == <<1, 1>>

----------------------------------------------------------------------------
(* Engine: bounds and inputs                                                *)

\* Number of time points below which the engine computes serially.
ParallelThreshold == 50

MaxPackets == 2
MaxDuration == 49
MaxWorkers == 3
\* The iterations of a loop that does not end that the model follows.
MaxLoop == 3

\* (duration, window_size) pairs: one below the threshold of 50 time points,
\* one on it, one with off-grid packet times (step 2).
EngineRuns == {<<MaxDuration - 1, 2>>, <<MaxDuration, 2>>, <<2 * MaxDuration, 4>>}
\* The value of a key of a packet of ffprobe's JSON: the key is missing
\* (pkt.get gives None), or its value is a string: the text of a number, the
\* text "N/A", or a text that float() and int() reject.
NoPts == [none |-> TRUE]
PtsOf(n) == [sec |-> n]
SizeOf(n) == [bytes |-> n]
NotAvailable == [text |-> "N/A"]
Malformed == [text |-> "abc"]
PktOf(pts, dts, size) == [pts_time |-> pts, dts_time |-> dts, size |-> size]
Pkt(pts, size) == PktOf(pts, NoPts, SizeOf(size))
\* Packets at a window start (0), at a window end (2 = 0 + window_size for
\* window_size 2), off the grid of step 2 (3), past the declared duration,
\* and without a timestamp.
Packet == {Pkt(PtsOf(0), 1000), Pkt(PtsOf(2), 3000), Pkt(PtsOf(3), 1000),
           Pkt(PtsOf(2 * MaxDuration + 1), 3000), Pkt(NoPts, 1000)}
\* A packet with "N/A" for pts_time, one with a malformed pts_time (each with
\* a dts_time), one with a malformed size, and one with only a dts_time and
\* no size.
OddPacket == {PktOf(NotAvailable, PtsOf(2), SizeOf(1000)),
              PktOf(Malformed, PtsOf(0), SizeOf(3000)),
              PktOf(PtsOf(2), NoPts, Malformed),
              PktOf(NoPts, PtsOf(3), NoPts)}

\* Scenario A: packets (0.0, 1000), (0.05, 1000), (0.1, 1000), window_size
\* 0.1 and duration 0.1, with the time in units of ScenarioTick = 0.05 s
\* (every float of the run is then a whole number of units).
ScenarioTick == <<1, 20>>
ScenarioA ==
    [packets |-> <<Pkt(PtsOf(0), 1000), Pkt(PtsOf(1), 1000), Pkt(PtsOf(2), 1000)>>,
     duration |-> 2, window_size |-> 2]

\* Calls with a window size that is not positive: a list without packets, a
\* list whose one packet has no timestamp, and a list with a usable packet.
NonPositiveWindow == {0, -2}
NonPositiveRuns ==
    {<<pkts, w>> : pkts \in {<<>>, <<Pkt(NoPts, 1000)>>, <<Pkt(PtsOf(0), 1000)>>},
                   w \in NonPositiveWindow}

RECURSIVE SeqsUpTo(_, _)
SeqsUpTo(S, n) ==
    IF n = 0 THEN {<<>>}
    ELSE LET shorter == SeqsUpTo(S, n - 1)
         IN  shorter \cup {Append(s, x) : s \in {t \in shorter : Len(t) = n - 1}, x \in S}

\* The packet lists of the calls: the lists of up to MaxPackets packets, and
\* the lists of one or two packets with a packet of OddPacket in them.
PacketLists ==
    SeqsUpTo(Packet, MaxPackets)
    \cup {<<u>> : u \in OddPacket}
    \cup {<<u, p>> : u \in OddPacket, p \in Packet \cup OddPacket}
    \cup {<<p, u>> : u \in OddPacket, p \in Packet \cup OddPacket}

----------------------------------------------------------------------------
(* Engine: the pure parts                                                   *)

\* Python's truth value of what pkt.get returns: None is false, the texts of
\* the model (none of them empty) are true.
Truthy(v) == v # NoPts

\* float(text): the number, or ValueError.
PyFloat(v) ==
    IF DOMAIN v = {"sec"} THEN [raised |-> FALSE, value |-> v.sec]
                          ELSE [raised |-> TRUE, value |-> 0]

\* int(x) for a text or the integer 0: the number, or ValueError.
PyInt(v) ==
    IF DOMAIN v = {"bytes"} THEN [raised |-> FALSE, value |-> v.bytes]
                            ELSE [raised |-> TRUE, value |-> 0]

\* pts = pkt.get("pts_time") or pkt.get("dts_time") (line 1345)
ChosenPts(pkt) ==
    IF Truthy(pkt.pts_time) THEN pkt.pts_time ELSE pkt.dts_time

\* pkt.get("size", 0) or 0 (line 1347)
ChosenSize(pkt) ==
    IF Truthy(pkt.size) THEN pkt.size ELSE SizeOf(0)

\* (variant: without the try/except around the conversions, an exception
\* ends the loop and the packets after it are lost)
RECURSIVE FrameDataUntilError(_)
FrameDataUntilError(pkts) ==
    IF pkts = <<>> THEN <<>>
    ELSE LET pkt == Head(pkts)
             pts == ChosenPts(pkt)
         IN  IF pts # NoPts /\ pts # NotAvailable
             THEN IF PyFloat(pts).raised \/ PyInt(ChosenSize(pkt)).raised
                  THEN <<>>
                  ELSE <<<<PyFloat(pts).value, PyInt(ChosenSize(pkt)).value>>>>
                       \o FrameDataUntilError(Tail(pkts))
             ELSE FrameDataUntilError(Tail(pkts))

\* lines 1342-1349: the loop over the packets.  A packet whose pts is None or
\* 'N/A' is passed over; one for which float(pts) or int(size) raises is
\* passed over by `except: continue`.
RECURSIVE FrameData(_)
FrameData(pkts) ==
    IF pkts = <<>> THEN <<>>
    ELSE LET pkt == Head(pkts)
             pts == ChosenPts(pkt)
             rest == FrameData(Tail(pkts))
         IN  IF pts # NoPts /\ pts # NotAvailable
             THEN IF PyFloat(pts).raised \/ PyInt(ChosenSize(pkt)).raised
                  THEN rest
                  ELSE <<<<PyFloat(pts).value, PyInt(ChosenSize(pkt)).value>>>> \o rest
             ELSE rest

\* (variant: the list is left in the order of the input)
SortByTimeKeepsOrder(s) ==
    s

\* list.sort(key=lambda x: x[0]): the stable ascending sort by the first
\* component.  Element i goes to the position that counts the elements with a
\* smaller key and the earlier elements with an equal key.
SortByTime(s) ==
    LET n == Len(s)
        rank == SubSeq([i \in 1..n |->
                    Cardinality({j \in 1..n : s[j][1] < s[i][1]})
                    + Cardinality({j \in 1..(i - 1) : s[j][1] = s[i][1]}) + 1], 1, n)
    IN  [r \in 1..n |-> s[CHOOSE i \in 1..n : rank[i] = r]]

\* (variant: the loop stops before actual_duration)
RECURSIVE GenTimePointsExclusive(_, _, _)
GenTimePointsExclusive(t, step, actual_duration) ==
    IF t < actual_duration
    THEN <<t>> \o GenTimePointsExclusive(t + step, step, actual_duration)
    ELSE <<>>

\* lines 1359-1364: t = 0; while t <= actual_duration: append t; t += step
RECURSIVE GenTimePoints(_, _, _)
GenTimePoints(t, step, actual_duration) ==
    IF t <= actual_duration
    THEN <<t>> \o GenTimePoints(t + step, step, actual_duration)
    ELSE <<>>

\* t <= pts < t + window_size
InWindowClosed(t, pts, w) ==
    t <= pts /\ pts <= t + w

InWindow(t, pts, w) ==
    t <= pts /\ pts < t + w

\* (variant: the sizes are summed as bytes)
RECURSIVE TotalBytes(_, _, _)
TotalBytes(fd, t, w) ==
    IF fd = <<>> THEN 0
    ELSE (IF InWindow(t, Head(fd)[1], w) THEN Head(fd)[2] ELSE 0)
         + TotalBytes(Tail(fd), t, w)

\* sum(size * 8 for pts, size in frame_data if t <= pts < t + window_size)
RECURSIVE TotalBits(_, _, _)
TotalBits(fd, t, w) ==
    IF fd = <<>> THEN 0
    ELSE (IF InWindow(t, Head(fd)[1], w) THEN Head(fd)[2] * 8 ELSE 0)
         + TotalBits(Tail(fd), t, w)

\* One loop iteration of _calculate_chunk / _calculate_bitrate_single:
\* (t + window_size / 2, total_bits / window_size / 1000)
SampleAt(fd, t, w) ==
    <<t + w \div 2, Rat(TotalBits(fd, t, w), w * 1000)>>

\* (variant: a time point whose window holds no bits gets no sample)
CalculateBitrateSingleSkipEmpty(fd, tps, w) ==
    LET HasBits(sample) == sample[2][1] # 0
    IN  SelectSeq([i \in 1..Len(tps) |-> SampleAt(fd, tps[i], w)], HasBits)

\* _calculate_bitrate_single (lines 1404-1420); progress reports left out.
CalculateBitrateSingle(fd, tps, w) ==
    [i \in 1..Len(tps) |-> SampleAt(fd, tps[i], w)]

\* _calculate_chunk (lines 80-98): the result list; the affinity polling of
\* the worker that runs it is modelled in SpecWorker.
CalculateChunk(fd, tps, w) ==
    [i \in 1..Len(tps) |-> SampleAt(fd, tps[i], w)]

Max(a, b) == IF a >= b THEN a ELSE b
Min(a, b) == IF a <= b THEN a ELSE b

\* lines 1372-1375
ChunkSize(n, workers) ==
    Max(1, n \div workers)

\* (variant: the last, shorter chunk is left out)
MakeChunksWithoutTail(tps, workers) ==
    LET cs == ChunkSize(Len(tps), workers)
        cnt == Len(tps) \div cs
    IN  [c \in 1..cnt |-> SubSeq(tps, (c - 1) * cs + 1, c * cs)]

MakeChunks(tps, workers) ==
    LET cs == ChunkSize(Len(tps), workers)
        cnt == (Len(tps) + cs - 1) \div cs
    IN  [c \in 1..cnt |-> SubSeq(tps, (c - 1) * cs + 1, Min(c * cs, Len(tps)))]

\* No call of calculate_bitrate_parallel is in progress.
EngineIdle ==
    /\ packets = <<>>
    /\ duration = 0
    /\ window_size = 2
    /\ num_workers = 1
    /\ e_pc = "idle"
    /\ frame_data = <<>>
    /\ time_points = <<>>
    /\ chunks = <<>>
    /\ futures = <<>>
    /\ results = <<>>
    /\ gather_i = 0
    /\ returned = <<>>
    /\ raised = FALSE
    /\ path = "none"

----------------------------------------------------------------------------
(* Session: the application after construction                              *)

HybridPCores == 4
HybridECores == 4

\* Analysis threads alive at the same time: the one that computes, and
\* earlier ones still in the tail of their finally block.
MaxThreads == 1
Thread == 1..MaxThreads

\* Callbacks waiting in the event loop at the same time: a thread's
\* root.after call waits while that many are pending.
MaxPending == 4

\* What CPUAffinityManager.__init__ (lines 106-128) and _detect_windows
\* (lines 154-204) leave behind.  A mask is the set of its core indices.
\* On Windows all_cores_mask is the system mask and supported is
\* has_hybrid_arch and e_core_count > 0 and p_core_count > 0 (line 190).
HybridHost ==
    [windows |-> TRUE, supported |-> TRUE,
     all_cores_mask |-> 0..(HybridPCores + HybridECores - 1),
     e_cores_mask |-> HybridPCores..(HybridPCores + HybridECores - 1)]

UniformHost ==
    [windows |-> TRUE, supported |-> FALSE,
     all_cores_mask |-> 0..(HybridPCores + HybridECores - 1),
     e_cores_mask |-> {}]

\* Not Windows: no detection runs, every mask keeps its initial 0.
OtherHost ==
    [windows |-> FALSE, supported |-> FALSE,
     all_cores_mask |-> {}, e_cores_mask |-> {}]

Host == {HybridHost, UniformHost, OtherHost}

\* The files the user can choose: what get_video_info and get_packets_data
\* report for them: one that can be analysed, one for which ffprobe reports
\* no usable duration (duration 0).
NoFile ==
    [chosen |-> FALSE, duration |-> 0, packets |-> <<>>]

AppVideo ==
    { [chosen |-> TRUE, duration |-> 6,
       packets |-> <<Pkt(PtsOf(0), 1000), Pkt(PtsOf(2), 3000), Pkt(PtsOf(3), 1000)>>],
      [chosen |-> TRUE, duration |-> 0, packets |-> <<>>] }

\* chart_info = None (line 420)
NoChartInfo ==
    [drawn |-> FALSE, view_start_time |-> Zero, view_end_time |-> Zero]

\* CPUAffinityManager.__init__ on the given host (lines 106-128, 182-184).
InitManager(host) ==
    /\ windows = host.windows
    /\ supported = host.supported
    /\ all_cores_mask = host.all_cores_mask
    /\ e_cores_mask = host.e_cores_mask
    /\ current_target_mask = host.all_cores_mask
    /\ current_target_type = "all"
    /\ shared_mask = host.all_cores_mask
    /\ main_affinity = host.all_cores_mask

\* BitrateAnalyzer.__init__ (lines 404-466).
InitAnalyzer ==
    /\ is_minimized = FALSE
    /\ use_e_cores_when_minimized = TRUE
    /\ analyzing = FALSE
    /\ video_path = NoFile
    /\ select_btn = "normal"
    /\ window_combo = "readonly"
    /\ c_pc = "idle"
    /\ c_set = "none"
    /\ c_handler = "none"
    /\ a_pc = [i \in Thread |-> "none"]
    /\ a_result = [i \in Thread |-> <<>>]
    /\ after_queue = <<>>
    /\ view_start = Zero
    /\ view_end = One
    /\ thumbnail_dragging = FALSE
    /\ thumbnail_drag_mode = "none"
    /\ thumbnail_drag_start_x = 0
    /\ thumbnail_drag_start_view = <<Zero, One>>
    /\ chart_info = NoChartInfo
    /\ thumbnail_info = FALSE
    /\ pending_chart_draw = "none"
    /\ current_visible_data = <<>>
    /\ view_ops = 0

\* A pool worker process before _worker_init: it inherits the affinity of
\* the main process; _last_applied_mask = 0 (line 29).
InitWorker ==
    /\ w_pc = "init"
    /\ w_i = 0
    /\ w_total = 0
    /\ last_applied_mask = {}
    /\ w_affinity = main_affinity
    /\ w_since = 0
    /\ w_behind = FALSE

\* The application sits untouched (the engine and the queries are driven
\* directly).
SessionIdle ==
    /\ InitManager(HybridHost)
    /\ InitAnalyzer
    /\ InitWorker

----------------------------------------------------------------------------
(* Viewport index: range query and decimation                               *)

\* max_thumb_points (line 1148)
MaxThumbPoints == 400

\* An integer as a rational.
RatInt(n) == <<n, 1>>

\* bisect.bisect_left(a, x): a is a list of integers (sample times), x a
\* rational; lo and hi are 0-based as in the library.
RECURSIVE BisectLeft(_, _, _, _)
BisectLeft(a, x, lo, hi) ==
    IF lo < hi
    THEN LET mid == (lo + hi) \div 2
         IN  IF RatLt(RatInt(a[mid + 1]), x)
             THEN BisectLeft(a, x, mid + 1, hi)
             ELSE BisectLeft(a, x, lo, mid)
    ELSE lo

\* bisect.bisect_right(a, x)
RECURSIVE BisectRight(_, _, _, _)
BisectRight(a, x, lo, hi) ==
    IF lo < hi
    THEN LET mid == (lo + hi) \div 2
         IN  IF RatLt(x, RatInt(a[mid + 1]))
             THEN BisectRight(a, x, lo, mid)
             ELSE BisectRight(a, x, mid + 1, hi)
    ELSE lo

\* The Python slice s[from:to] with 0 <= from and 0 <= to (0-based, to
\* exclusive, clamped to the length, empty when from >= to).
Slice(s, from, to) ==
    SubSeq(s, from + 1, Min(to, Len(s)))

\* max(bucket, key=lambda x: x[1]): the first element with the largest
\* bitrate; bucket is not empty.
RECURSIVE MaxPoint(_)
MaxPoint(bucket) ==
    IF Len(bucket) = 1 THEN bucket[1]
    ELSE LET rest == MaxPoint(Tail(bucket))
         IN  IF RatLt(Head(bucket)[2], rest[2]) THEN rest ELSE Head(bucket)

\* int(i * step) with step = n / max_points: the floor of i * n / max_points.
\* (The float product agrees with the exact floor for every length and budget
\* drawn below; for other lengths it can be one less, which moves a bucket
\* boundary by one sample.)
BucketBound(i, n, max_points) ==
    (i * n) \div max_points

\* (variant: the loop runs over range(1, max_points))
BucketMaximaOneMore(data, max_points) ==
    LET bucket == [i \in 1..(max_points - 1) |->
                      Slice(data, BucketBound(i, Len(data), max_points),
                            BucketBound(i + 1, Len(data), max_points))]
        kept == SelectSeq(bucket, LAMBDA b : b # <<>>)
    IN  [k \in 1..Len(kept) |-> MaxPoint(kept[k])]

\* The loop `for i in range(1, max_points - 1)`: the maximum of every
\* non-empty bucket, in bucket order.
BucketMaxima(data, max_points) ==
    LET bucket == [i \in 1..(max_points - 2) |->
                      Slice(data, BucketBound(i, Len(data), max_points),
                            BucketBound(i + 1, Len(data), max_points))]
        kept == SelectSeq(bucket, LAMBDA b : b # <<>>)
    IN  [k \in 1..Len(kept) |-> MaxPoint(kept[k])]

\* (variant: the last sample is not appended)
DecimateWithoutLast(data, max_points) ==
    SortByTime(<<data[1]>> \o BucketMaxima(data, max_points))

\* The decimation of a list longer than max_points (lines 1182-1195 and
\* 1153-1165, the same code twice): first sample, the maximum of each bucket
\* 1 .. max_points - 2, last sample, sorted by time.
Decimate(data, max_points) ==
    SortByTime(<<data[1]>> \o BucketMaxima(data, max_points)
               \o <<data[Len(data)]>>)

\* (variant: the overview is cut to the budget of the chart, 800)
PrepareThumbnailDataChartBudget(data) ==
    IF Len(data) <= 2 * MaxThumbPoints THEN data
    ELSE Decimate(data, 2 * MaxThumbPoints)

\* prepare_thumbnail_data (lines 1146-1165): the new thumbnail_data.
PrepareThumbnailData(data) ==
    IF Len(data) <= MaxThumbPoints THEN data
    ELSE Decimate(data, MaxThumbPoints)

\* (variant: no extra sample on either side)
VisibleSliceNoNeighbours(data, index, view_start_time, view_end_time) ==
    LET start_idx == BisectLeft(index, view_start_time, 0, Len(index))
        end_idx == BisectRight(index, view_end_time, 0, Len(index))
    IN  Slice(data, start_idx, end_idx)

\* get_visible_data, lines 1171-1177: the range slice.
VisibleSlice(data, index, view_start_time, view_end_time) ==
    LET start_idx == BisectLeft(index, view_start_time, 0, Len(index))
        end_idx == BisectRight(index, view_end_time, 0, Len(index))
    IN  Slice(data, Max(0, start_idx - 1), Min(Len(data), end_idx + 1))

\* (variant: a slice of exactly max_points samples is decimated too)
GetVisibleDataStrict(data, index, view_start_time, view_end_time, max_points) ==
    IF data = <<>> THEN <<>>
    ELSE LET visible_data == VisibleSlice(data, index, view_start_time, view_end_time)
         IN  IF Len(visible_data) < max_points THEN visible_data
             ELSE Decimate(visible_data, max_points)

\* get_visible_data (lines 1167-1195).
GetVisibleData(data, index, view_start_time, view_end_time, max_points) ==
    IF data = <<>> THEN <<>>
    ELSE LET visible_data == VisibleSlice(data, index, view_start_time, view_end_time)
         IN  IF Len(visible_data) <= max_points THEN visible_data
             ELSE Decimate(visible_data, max_points)

TimesOf(data) ==
    [i \in 1..Len(data) |-> data[i][1]]

DataEmpty ==
    /\ bitrate_data = <<>>
    /\ time_index = <<>>
    /\ thumbnail_data = <<>>

QueryIdle ==
    /\ q_pc = "idle"
    /\ q_args = <<RatInt(0), RatInt(0), 1>>
    /\ q_slice = <<>>
    /\ q_out = <<>>

----------------------------------------------------------------------------
(* Viewport index: the queries on an installed series                       *)

MaxLen == 6
MaxBudget == 3

\* A series of n samples at times 1 .. n whose bitrate is 1 kbps except for a
\* peak of 3 at position p and a second peak of 2 at position q.
TestSeries(n, p, q) ==
    [i \in 1..n |-> <<i, RatInt(IF i = p THEN 3 ELSE IF i = q THEN 2 ELSE 1)>>]

SmallSeries ==
    {TestSeries(n, p, q) : n \in 1..MaxLen, p \in 1..MaxLen, q \in 1..MaxLen}

\* Series longer than the thumbnail budget, the peak near either end or in
\* the middle.
LongLengths == {MaxThumbPoints + 1, 2 * MaxThumbPoints, 2 * MaxThumbPoints + 1}

LongSeries ==
    {TestSeries(n, p, 0) : n \in LongLengths,
                           p \in {1, 2, 3, MaxThumbPoints, MaxThumbPoints + 1}}
    \cup {TestSeries(n, n - k, 0) : n \in LongLengths, k \in 0..2}

InitDecim ==
    /\ EngineIdle
    /\ SessionIdle
    /\ bitrate_data \in SmallSeries \cup LongSeries
    /\ time_index = TimesOf(bitrate_data)
    /\ thumbnail_data = <<>>
    /\ q_pc = "call"
    /\ \E a \in 0..(2 * MaxLen + 2), b \in 0..(2 * MaxLen + 2), m \in 1..MaxBudget :
          /\ a <= b
          /\ (Len(bitrate_data) > MaxLen => a = 0 /\ b = 0 /\ m = 1)
          /\ q_args = <<Rat(a, 2), Rat(b, 2), m>>
    /\ q_slice = <<>>
    /\ q_out = <<>>

\* (variant: the call keeps what it returns as the overview's data)
CallGetVisibleDataKeepsResult ==
    /\ q_pc \in {"call", "done"}
    /\ q_pc' = IF q_pc = "call" THEN "done" ELSE "again"
    /\ q_slice' = IF bitrate_data = <<>> THEN <<>>
                  ELSE VisibleSlice(bitrate_data, time_index, q_args[1], q_args[2])
    /\ q_out' = GetVisibleData(bitrate_data, time_index, q_args[1], q_args[2], q_args[3])
    /\ thumbnail_data' = q_out'
    /\ UNCHANGED <<q_args, bitrate_data, time_index, engineVars, sessionVars,
                   workerVars>>

\* One call get_visible_data(view_start_time, view_end_time, max_points),
\* and the same call once more.
CallGetVisibleData ==
    /\ q_pc \in {"call", "done"}
    /\ q_pc' = IF q_pc = "call" THEN "done" ELSE "again"
    /\ q_slice' = IF bitrate_data = <<>> THEN <<>>
                  ELSE VisibleSlice(bitrate_data, time_index, q_args[1], q_args[2])
    /\ q_out' = GetVisibleData(bitrate_data, time_index, q_args[1], q_args[2], q_args[3])
    /\ UNCHANGED <<q_args, dataVars, engineVars, sessionVars, workerVars>>

\* One call prepare_thumbnail_data().
CallPrepareThumbnailData ==
    /\ thumbnail_data = <<>>
    /\ thumbnail_data' = PrepareThumbnailData(bitrate_data)
    /\ UNCHANGED <<bitrate_data, time_index, queryVars, engineVars, sessionVars,
                   workerVars>>

NextDecim ==
    \/ CallGetVisibleData
    \/ CallPrepareThumbnailData

SpecDecim == InitDecim /\ [][NextDecim]_vars

----------------------------------------------------------------------------
(* Engine: calculate_bitrate_parallel as a state machine                    *)

\* except Exception (lines 1397-1399): the exception is caught and the serial
\* computation over all time points is returned; `partial`, the list gathered
\* from the futures before the failure, is dropped.
FallbackKeepsPartial(fd, tps, w, partial) ==
    [raised |-> FALSE, value |-> SortByTime(partial)]

FallbackResult(fd, tps, w, partial) ==
    [raised |-> FALSE, value |-> CalculateBitrateSingle(fd, tps, w)]

\* (variant: the list is sorted by the bitrate, key x[1])
FinalResultByRate(res) ==
    LET n == Len(res)
        rank == SubSeq([i \in 1..n |->
                    Cardinality({j \in 1..n : RatLt(res[j][2], res[i][2])})
                    + Cardinality({j \in 1..(i - 1) : res[j][2] = res[i][2]}) + 1], 1, n)
    IN  [r \in 1..n |-> res[CHOOSE i \in 1..n : rank[i] = r]]

\* results.sort(key=lambda x: x[0]); return results (lines 1401-1402)
FinalResult(res) ==
    SortByTime(res)

RECURSIVE ConcatChunks(_, _, _)
ConcatChunks(fd, chs, w) ==
    IF chs = <<>> THEN <<>>
    ELSE CalculateChunk(fd, Head(chs), w) \o ConcatChunks(fd, Tail(chs), w)

\* calculate_bitrate_parallel (lines 1341-1402) as a function of its
\* arguments, when no worker fails.
CalculateBitrateParallel(pkts, dur, w, workers) ==
    LET fd == SortByTime(FrameData(pkts))
        max_frame_time == IF fd # <<>> THEN fd[Len(fd)][1] ELSE 0
        tps == GenTimePoints(0, w \div 2, Max(dur, max_frame_time))
    IN  IF fd = <<>> THEN <<>>
        ELSE IF Len(tps) < ParallelThreshold \/ workers <= 1
             THEN CalculateBitrateSingle(fd, tps, w)
             ELSE FinalResult(ConcatChunks(fd, MakeChunks(tps, workers), w))

InitEngine ==
    /\ DataEmpty
    /\ QueryIdle
    /\ SessionIdle
    /\ \/ /\ packets \in PacketLists
          /\ \E run \in EngineRuns : duration = run[1] /\ window_size = run[2]
       \/ /\ packets = ScenarioA.packets
          /\ duration = ScenarioA.duration
          /\ window_size = ScenarioA.window_size
       \/ /\ \E run \in NonPositiveRuns : packets = run[1] /\ window_size = run[2]
          /\ duration = MaxDuration
    /\ num_workers \in 1..MaxWorkers
    /\ e_pc = "call"
    /\ frame_data = <<>>
    /\ time_points = <<>>
    /\ chunks = <<>>
    /\ futures = <<>>
    /\ results = <<>>
    /\ gather_i = 0
    /\ returned = <<>>
    /\ raised = FALSE
    /\ path = "none"

\* (variant: without the early return of lines 1351-1352; max_frame_time is
\* then 0 and the windows are computed over no packets)
EnterWithoutEmptyReturn ==
    /\ e_pc = "call"
    /\ LET fd == SortByTime(FrameData(packets))
           max_frame_time == IF fd # <<>> THEN fd[Len(fd)][1] ELSE 0
           actual_duration == Max(duration, max_frame_time)
           step == window_size \div 2
           tps == GenTimePoints(0, step, actual_duration)
       IN  IF step <= 0
           THEN /\ frame_data' = fd
                /\ time_points' = <<>>
                /\ e_pc' = "points"
                /\ UNCHANGED <<path, returned, chunks>>
           ELSE /\ frame_data' = fd
                /\ time_points' = tps
                /\ IF Len(tps) < ParallelThreshold \/ num_workers <= 1
                   THEN /\ e_pc' = "done"
                        /\ path' = "serial"
                        /\ returned' = CalculateBitrateSingle(fd, tps, window_size)
                        /\ UNCHANGED chunks
                   ELSE /\ e_pc' = "pool"
                        /\ chunks' = MakeChunks(tps, num_workers)
                        /\ UNCHANGED <<path, returned>>
    /\ UNCHANGED <<packets, duration, window_size, num_workers, futures,
                   results, gather_i, raised>>
    /\ UNCHANGED nonEngineVars

\* lines 1342-1377: from the call to the first return or to the pool; with
\* a step <= 0, to the loop of lines 1362-1364, which then does not end.
Enter ==
    /\ e_pc = "call"
    /\ LET fd == SortByTime(FrameData(packets))
           max_frame_time == IF fd # <<>> THEN fd[Len(fd)][1] ELSE 0
           actual_duration == Max(duration, max_frame_time)
           step == window_size \div 2
           tps == GenTimePoints(0, step, actual_duration)
       IN  IF fd = <<>>
           THEN /\ e_pc' = "done"
                /\ path' = "empty"
                /\ returned' = <<>>
                /\ UNCHANGED <<frame_data, time_points, chunks>>
           ELSE IF step <= 0
           THEN /\ frame_data' = fd
                /\ time_points' = <<>>
                /\ e_pc' = "points"
                /\ UNCHANGED <<path, returned, chunks>>
           ELSE /\ frame_data' = fd
                /\ time_points' = tps
                /\ IF Len(tps) < ParallelThreshold \/ num_workers <= 1
                   THEN /\ e_pc' = "done"
                        /\ path' = "serial"
                        /\ returned' = CalculateBitrateSingle(fd, tps, window_size)
                        /\ UNCHANGED chunks
                   ELSE /\ e_pc' = "pool"
                        /\ chunks' = MakeChunks(tps, num_workers)
                        /\ UNCHANGED <<path, returned>>
    /\ UNCHANGED <<packets, duration, window_size, num_workers, futures,
                   results, gather_i, raised>>
    /\ UNCHANGED nonEngineVars

\* lines 1362-1364 with step <= 0: `while t <= actual_duration` holds in
\* every iteration (t = 0, step, 2 * step, ... never passes actual_duration),
\* so each iteration appends a time point and the loop goes on until the
\* memory is used up.  The model follows MaxLoop iterations.
TimePointLoop ==
    /\ e_pc = "points"
    /\ Len(time_points) < MaxLoop
    /\ LET t == Len(time_points) * (window_size \div 2)
           actual_duration == Max(duration, frame_data[Len(frame_data)][1])
       IN  /\ t <= actual_duration
           /\ time_points' = Append(time_points, t)
    /\ UNCHANGED <<packets, duration, window_size, num_workers, e_pc, frame_data,
                   chunks, futures, results, gather_i, returned, raised, path>>
    /\ UNCHANGED nonEngineVars

\* lines 1384-1392: the pool is created and one future submitted per chunk.
Submit ==
    /\ e_pc = "pool"
    /\ e_pc' = "gather"
    /\ futures' = [c \in 1..Len(chunks) |-> "pending"]
    /\ gather_i' = 1
    /\ UNCHANGED <<packets, duration, window_size, num_workers, frame_data,
                   time_points, chunks, results, returned, raised, path>>
    /\ UNCHANGED nonEngineVars

\* lines 1397-1399: creating the pool or submitting raises.
PoolFails ==
    /\ e_pc = "pool"
    /\ e_pc' = "done"
    /\ path' = "fallback"
    /\ LET out == FallbackResult(frame_data, time_points, window_size, results)
       IN  returned' = out.value /\ raised' = out.raised
    /\ UNCHANGED <<packets, duration, window_size, num_workers, frame_data,
                   time_points, chunks, futures, results, gather_i>>
    /\ UNCHANGED nonEngineVars

\* A worker finishes a chunk (the chunks finish in any order).
ChunkDone(c) ==
    /\ e_pc = "gather"
    /\ futures[c] = "pending"
    /\ futures' = [futures EXCEPT
                        ![c] = IF c = Len(futures) /\ c > 1 /\ futures[1] = "pending"
                               THEN "ahead" ELSE "ok"]
    /\ UNCHANGED <<packets, duration, window_size, num_workers, e_pc,
                   frame_data, time_points, chunks, results, gather_i,
                   returned, raised, path>>
    /\ UNCHANGED nonEngineVars

\* lines 1393-1396 and 1401-1402: results.extend(future.result()) in
\* submission order; after the last future the list is sorted and returned.
Gather ==
    /\ e_pc = "gather"
    /\ futures[gather_i] # "pending"
    /\ LET res == results \o CalculateChunk(frame_data, chunks[gather_i], window_size)
       IN  IF gather_i = Len(futures)
           THEN /\ e_pc' = "done"
                /\ path' = "parallel"
                /\ results' = res
                /\ returned' = FinalResult(res)
                /\ UNCHANGED gather_i
           ELSE /\ results' = res
                /\ gather_i' = gather_i + 1
                /\ UNCHANGED <<e_pc, path, returned>>
    /\ UNCHANGED <<packets, duration, window_size, num_workers, frame_data,
                   time_points, chunks, futures, raised>>
    /\ UNCHANGED nonEngineVars

\* lines 1397-1399: future.result() raises (the chunk's worker failed, or
\* the pool broke); the except branch returns the serial computation.
GatherError ==
    /\ e_pc = "gather"
    /\ futures[gather_i] = "pending"
    /\ e_pc' = "done"
    /\ path' = "fallback"
    /\ LET out == FallbackResult(frame_data, time_points, window_size, results)
       IN  returned' = out.value /\ raised' = out.raised
    /\ UNCHANGED <<packets, duration, window_size, num_workers, frame_data,
                   time_points, chunks, futures, results, gather_i>>
    /\ UNCHANGED nonEngineVars

NextEngine ==
    \/ Enter
    \/ TimePointLoop
    \/ Submit
    \/ PoolFails
    \/ \E c \in 1..Len(futures) : ChunkDone(c)
    \/ Gather
    \/ GatherError

SpecEngine == InitEngine /\ [][NextEngine]_vars

----------------------------------------------------------------------------
(* Engine: properties                                                       *)

\* C1: calculate_bitrate_parallel returns the same Series on the parallel
\* path (chunks computed by _calculate_chunk, concatenated and sorted) as the
\* serial computation _calculate_bitrate_single over all time points gives,
\* for every worker budget, chunk count and chunk boundary.
C1_ParallelEqualsSerial ==
    (e_pc = "done" /\ path \in {"serial", "parallel"})
        => returned = CalculateBitrateSingle(frame_data, time_points, window_size)

C1_Witness ==
    /\ e_pc = "done"
    /\ path = "parallel"
    /\ Len(chunks) >= 3
    /\ Len(chunks[Len(chunks)]) < Len(chunks[1])
    /\ \E k \in 1..Len(returned) : returned[k][2] # <<0, 1>>

\* The packet's timestamp: its pts_time, or its dts_time when it has no
\* pts_time.
TimestampOf(pkt) ==
    IF pkt.pts_time = NoPts THEN pkt.dts_time ELSE pkt.pts_time

\* The packet has a timestamp that is a number, and its size is a number or
\* missing (a packet without a size counts 0 bytes).
Usable(pkt) ==
    /\ TimestampOf(pkt) \notin {NoPts, NotAvailable, Malformed}
    /\ pkt.size # Malformed

SizeBytes(pkt) ==
    IF pkt.size = NoPts THEN 0 ELSE pkt.size.bytes

RECURSIVE SumOfSizes(_, _)
SumOfSizes(pkts, I) ==
    IF I = {} THEN 0
    ELSE LET i == CHOOSE x \in I : TRUE
         IN  SizeBytes(pkts[i]) + SumOfSizes(pkts, I \ {i})

\* The usable packets of the input whose timestamp lies in [t, t + w).
PacketsInWindow(pkts, t, w) ==
    {i \in 1..Len(pkts) :
        /\ Usable(pkts[i])
        /\ t <= TimestampOf(pkts[i]).sec
        /\ TimestampOf(pkts[i]).sec < t + w}

\* C2: the sample of time point t has time t + window_size/2 and bitrate
\* 8 * (sum of the sizes of the packets with t <= timestamp < t + window_size)
\* / window_size / 1000; the window is half-open.
C2_WindowedBitrate ==
    (e_pc = "done" /\ path # "empty")
        => /\ Len(returned) = Len(time_points)
           /\ \A k \in 1..Len(time_points) :
                LET t == time_points[k]
                    bytes == SumOfSizes(packets, PacketsInWindow(packets, t, window_size))
                IN  /\ 2 * returned[k][1] = 2 * t + window_size
                    /\ returned[k][2][1] * window_size * 1000
                         = 8 * bytes * returned[k][2][2]

\* A packet exactly at a window start (0) and one exactly at a window end
\* (2 = 0 + window_size) were aggregated.
C2_Witness ==
    /\ e_pc = "done"
    /\ path # "empty"
    /\ window_size = 2
    /\ \E i, j \in 1..Len(packets) :
          packets[i].pts_time = PtsOf(0) /\ packets[j].pts_time = PtsOf(2)

\* C8: when a worker of the parallel path fails, the chunk results gathered
\* so far are discarded and the serial computation over all time points is
\* returned: a complete Series, and no exception reaches the caller.
C8_FailureFallsBackToSerial ==
    (e_pc = "done" /\ path = "fallback")
        => /\ ~raised
           /\ Len(returned) = Len(time_points)
           /\ returned = CalculateBitrateSingle(frame_data, time_points, window_size)

\* A failure after some chunks had already been gathered.
C8_Witness ==
    /\ e_pc = "done"
    /\ path = "fallback"
    /\ results # <<>>
    /\ Len(results) < Len(time_points)

\* The timestamps of the usable packets.
UsableTimes(pkts) ==
    {TimestampOf(pkts[i]).sec : i \in {j \in 1..Len(pkts) : Usable(pkts[j])}}

\* max(total_duration, last packet timestamp)
EffectiveDuration(pkts, dur) ==
    LET times == UsableTimes(pkts) \cup {dur}
    IN  CHOOSE m \in times : \A o \in times : o <= m

C17_TimeOrdered ==
    e_pc = "done"
        => \A i \in 1..(Len(returned) - 1) : returned[i][1] < returned[i + 1][1]

\* A parallel run of three or more chunks whose last chunk was finished
\* before its first one.
C17_Witness ==
    /\ e_pc = "done"
    /\ path = "parallel"
    /\ Len(chunks) >= 3
    /\ futures[Len(futures)] = "ahead"
    /\ Len(returned) = Len(time_points)

\* C18: every sample of the returned Series has a bitrate >= 0, and every
\* time point whose window [t, t + window_size) contains no packet has its
\* sample in the Series, with a bitrate of exactly 0.
C18_NonNegativeZeroWhenEmpty ==
    e_pc = "done"
        => /\ \A k \in 1..Len(returned) : RatLeq(RatInt(0), returned[k][2])
           /\ \A k \in 1..Len(time_points) :
                PacketsInWindow(packets, time_points[k], window_size) = {}
                    => /\ k <= Len(returned)
                       /\ 2 * returned[k][1] = 2 * time_points[k] + window_size
                       /\ returned[k][2] = RatInt(0)

\* A Series with a sample of a window without packets between two samples of
\* windows with packets.
C18_Witness ==
    /\ e_pc = "done"
    /\ path # "empty"
    /\ \E k \in 2..(Len(returned) - 1) :
          /\ PacketsInWindow(packets, time_points[k], window_size) = {}
          /\ returned[k][2] = RatInt(0)
          /\ returned[k - 1][2] # RatInt(0)
          /\ \E l \in (k + 1)..Len(returned) : returned[l][2] # RatInt(0)

\* C19: for an empty packet list calculate_bitrate_parallel returns the empty
\* Series and raises nothing, at its first return, whatever the duration, the
\* window size and the number of workers are.
C19_EmptyInEmptyOut ==
    packets = <<>>
        => /\ ~raised
           /\ e_pc \in {"call", "done"}
           /\ e_pc = "done" => returned = <<>> /\ path = "empty"

\* The empty list with a duration and a worker count that take a call with
\* packets to the process pool.
C19_Witness ==
    /\ e_pc = "done"
    /\ packets = <<>>
    /\ returned = <<>>
    /\ num_workers = MaxWorkers
    /\ duration \div (window_size \div 2) + 1 >= ParallelThreshold

\* The packet list without the packets that are not usable.
RemoveUnusable(pkts) ==
    SelectSeq(pkts, Usable)

\* C33: the Series returned is the one the call gives (computed by one
\* worker) for the same list, for the list with its first two packets
\* exchanged and for the list with its first packet moved to the end, hence
\* (every rearrangement being reached by repeating these two, and the lists
\* of the model being all the lists over the packets) for every
\* rearrangement of the list; and no step of the call changes the caller's
\* list.
C33_OrderIndependent ==
    /\ [](e_pc = "done" /\ window_size > 0
            => returned = CalculateBitrateParallel(packets, duration, window_size, 1))
    /\ [](e_pc = "done" /\ window_size > 0 /\ Len(packets) > 1
            => returned = CalculateBitrateParallel(
                              <<packets[2], packets[1]>> \o SubSeq(packets, 3, Len(packets)),
                              duration, window_size, 1))
    /\ [](e_pc = "done" /\ window_size > 0 /\ Len(packets) > 2
            => returned = CalculateBitrateParallel(Tail(packets) \o <<Head(packets)>>,
                                                   duration, window_size, 1))
    /\ [][packets' = packets]_vars

\* The call has returned a Series for a list whose first packet is later
\* than its second.
C33_Witness ==
    /\ e_pc = "done"
    /\ returned # <<>>
    /\ Len(packets) = 2
    /\ Usable(packets[1]) /\ Usable(packets[2])
    /\ TimestampOf(packets[1]).sec > TimestampOf(packets[2]).sec

\* Two packets with the same timestamp and different sizes.
C33_WitnessTie ==
    /\ e_pc = "done"
    /\ returned # <<>>
    /\ Len(packets) = 2
    /\ Usable(packets[1]) /\ Usable(packets[2])
    /\ TimestampOf(packets[1]).sec = TimestampOf(packets[2]).sec
    /\ SizeBytes(packets[1]) # SizeBytes(packets[2])

\* C20: a packet whose timestamp is missing, "N/A" or malformed, or whose
\* size is malformed, is passed over and the call goes on: every usable
\* packet is in frame_data with its timestamp and size, no other packet is,
\* and the Series returned is the one the list without the unusable packets
\* gives (computed by one worker).
C20_UnusableSkipped ==
    e_pc = "done"
        => /\ ~raised
           /\ LET kept == RemoveUnusable(packets)
              IN  IF path = "empty"
                  THEN kept = <<>>
                  ELSE frame_data
                         = SortByTime([i \in 1..Len(kept) |->
                               <<TimestampOf(kept[i]).sec, SizeBytes(kept[i])>>])
           /\ returned = CalculateBitrateParallel(RemoveUnusable(packets), duration,
                                                  window_size, 1)

\* An unusable packet came before a usable one, and the Series has the
\* usable packet's bits.
C20_Witness ==
    /\ e_pc = "done"
    /\ Len(packets) = 2
    /\ ~Usable(packets[1])
    /\ packets[1].pts_time # NoPts
    /\ Usable(packets[2])
    /\ Len(frame_data) = 1
    /\ \E k \in 1..Len(returned) : returned[k][2] # RatInt(0)

\* C21: a call with a window size that is not positive ends in an error
\* reported to the caller and produces nothing: once entered, it has raised,
\* returned no Series and built no time points.
C21_NonPositiveWindowRejected ==
    (window_size <= 0 /\ e_pc # "call")
        => /\ e_pc = "done"
           /\ raised
           /\ returned = <<>>
           /\ time_points = <<>>

\* The call is the one of Scenario A.
InScenarioA ==
    /\ packets = ScenarioA.packets
    /\ duration = ScenarioA.duration
    /\ window_size = ScenarioA.window_size

\* The sample in seconds and kbps: the model's time is in units of
\* ScenarioTick, its bitrate in kbit per unit.
InSeconds(sample) ==
    <<RatMul(RatInt(sample[1]), ScenarioTick), RatDiv(sample[2], ScenarioTick)>>

\* C16 as stated: Scenario A generates exactly the two time points 0.0 and
\* 0.05 (a Series of two samples), and the sample centred at 0.05 has 160 kbps.
C16_ScenarioATwoPoints ==
    (e_pc = "done" /\ InScenarioA)
        => /\ time_points = <<0, 1>>
           /\ Len(returned) = 2
           /\ InSeconds(returned[1]) = <<Rat(5, 100), RatInt(160)>>

\* C16: Scenario A generates the three time points 0.0, 0.05 and 0.1 (a
\* Series of three samples), and the sample centred at 0.05 aggregates the
\* packets at 0.0 and 0.05 to 160 kbps.
C16_ScenarioA ==
    (e_pc = "done" /\ InScenarioA)
        => /\ time_points = <<0, 1, 2>>
           /\ Len(returned) = 3
           /\ InSeconds(returned[1]) = <<Rat(5, 100), RatInt(160)>>

C16_Witness ==
    /\ e_pc = "done"
    /\ InScenarioA
    /\ path = "serial"
    /\ returned # <<>>

----------------------------------------------------------------------------
(* Viewport index: properties                                               *)

\* The largest bitrate of a non-empty list of samples.
MaxRate(data) ==
    LET rates == {data[i][2] : i \in 1..Len(data)}
    IN  CHOOSE r \in rates : \A o \in rates : RatLeq(o, r)

Samples(data) ==
    {data[i] : i \in 1..Len(data)}

\* C9: decimation preserves peaks: for a slice longer than the budget, the
\* maximum bitrate of the returned samples equals the maximum bitrate of the
\* slice, in get_visible_data and in prepare_thumbnail_data, wherever the peak
\* lies in the slice.
C9_PeakPreserved ==
    /\ (q_pc = "done" /\ Len(q_slice) > q_args[3])
          => MaxRate(q_out) = MaxRate(q_slice)
    /\ (thumbnail_data # <<>> /\ Len(bitrate_data) > MaxThumbPoints)
          => MaxRate(thumbnail_data) = MaxRate(bitrate_data)

\* C10: for every non-empty slice and every budget the decimated output
\* contains the first and the last sample of the slice unchanged.
C10_EndpointsKept ==
    /\ (q_pc = "done" /\ q_slice # <<>>)
          => /\ q_slice[1] \in Samples(q_out)
             /\ q_slice[Len(q_slice)] \in Samples(q_out)
    /\ (thumbnail_data # <<>>)
          => /\ bitrate_data[1] \in Samples(thumbnail_data)
             /\ bitrate_data[Len(bitrate_data)] \in Samples(thumbnail_data)

\* A slice longer than the budget was decimated and neither end is a peak.
C10_Witness ==
    /\ q_pc = "done"
    /\ Len(q_slice) > q_args[3]
    /\ q_args[3] >= 3
    /\ Len(q_out) < Len(q_slice)
    /\ q_slice[1][2] = RatInt(1)
    /\ q_slice[Len(q_slice)][2] = RatInt(1)
    /\ MaxRate(q_slice) = RatInt(3)

\* C11: when the slice has at most `budget` samples, get_visible_data
\* returns exactly the slice and prepare_thumbnail_data installs exactly the
\* series: the same samples in the same order.
C11_SmallSliceUnchanged ==
    /\ (q_pc = "done" /\ Len(q_slice) <= q_args[3]) => q_out = q_slice
    /\ (thumbnail_data # <<>> /\ Len(bitrate_data) <= MaxThumbPoints)
          => thumbnail_data = bitrate_data

\* A slice of exactly `budget` samples, and one of several samples below it.
C11_Witness ==
    /\ q_pc = "done"
    /\ q_slice # <<>>
    /\ Len(q_slice) = q_args[3]
    /\ Len(q_slice) < Len(bitrate_data)
    /\ thumbnail_data # <<>>

\* The list is in non-decreasing time order.
TimeOrdered(data) ==
    \A i \in 1..(Len(data) - 1) : data[i][1] <= data[i + 1][1]

\* out is a decimation of slice within the budget: no more than `budget`
\* samples, each one a sample of the slice, in time order.
WithinBudget(out, slice, budget) ==
    /\ Len(out) <= budget
    /\ Samples(out) \subseteq Samples(slice)
    /\ TimeOrdered(out)

\* C12 as stated: for every budget the output has no more than `budget`
\* samples, every output sample is a sample of the slice, and the output is
\* in non-decreasing time order.
C12_WithinBudgetAnyBudget ==
    /\ q_pc = "done" => WithinBudget(q_out, q_slice, q_args[3])
    /\ thumbnail_data # <<>>
          => WithinBudget(thumbnail_data, bitrate_data, MaxThumbPoints)

\* C12: for a budget of at least 2 the output has no more than `budget`
\* samples; for every budget every output sample is a sample of the slice
\* and the output is in non-decreasing time order.
C12_WithinBudget ==
    /\ q_pc = "done"
          => /\ q_args[3] >= 2 => Len(q_out) <= q_args[3]
             /\ Samples(q_out) \subseteq Samples(q_slice)
             /\ TimeOrdered(q_out)
    /\ thumbnail_data # <<>>
          => WithinBudget(thumbnail_data, bitrate_data, MaxThumbPoints)

\* A slice longer than the budget was cut down to exactly the budget, and a
\* series longer than the thumbnail budget was decimated.
C12_Witness ==
    /\ q_pc = "done"
    /\ q_args[3] >= 3
    /\ Len(q_slice) > q_args[3]
    /\ Len(q_out) = q_args[3]

\* The positions of the series a range query [st, en] has to return: every
\* sample with st <= time <= en, the last sample before st and the first
\* sample after en (where they exist).
RangePositions(index, st, en) ==
    LET all == 1..Len(index)
        inside == {i \in all : RatLeq(st, RatInt(index[i])) /\ RatLeq(RatInt(index[i]), en)}
        before == {i \in all : RatLt(RatInt(index[i]), st)}
        after == {i \in all : RatLt(en, RatInt(index[i]))}
    IN  inside
        \cup {i \in before : \A j \in before : j <= i}
        \cup {i \in after : \A j \in after : i <= j}

\* The range [st, en] lies within the bounds of the series.
WithinSeries(index, st, en) ==
    /\ index # <<>>
    /\ RatLeq(RatInt(index[1]), st)
    /\ RatLeq(st, en)
    /\ RatLeq(en, RatInt(index[Len(index)]))

\* C13: for start_time <= end_time within the series bounds the range slice
\* of get_visible_data is a contiguous, time-ordered run of the series: every
\* sample with time in [start_time, end_time] plus exactly one neighbouring
\* sample on each side where there is one.
C13_RangeSlice ==
    (q_pc = "done" /\ WithinSeries(time_index, q_args[1], q_args[2]))
        => LET pos == RangePositions(time_index, q_args[1], q_args[2])
               lo == CHOOSE i \in pos : \A j \in pos : i <= j
               hi == CHOOSE i \in pos : \A j \in pos : j <= i
           IN  /\ pos = lo..hi
               /\ q_slice = SubSeq(bitrate_data, lo, hi)
               /\ TimeOrdered(q_slice)

\* A range between the samples' times that ends on a sample's time, with a
\* neighbour on either side and samples left out on both sides.
C13_Witness ==
    /\ q_pc = "done"
    /\ WithinSeries(time_index, q_args[1], q_args[2])
    /\ q_args[1][2] = 2
    /\ q_args[2][2] = 1
    /\ Len(q_slice) = 4
    /\ q_slice[1] # bitrate_data[1]
    /\ q_slice[Len(q_slice)] # bitrate_data[Len(bitrate_data)]

\* The range [st, en] lies entirely before the first or entirely after the
\* last sample of a non-empty series.
OutsideSeries(index, st, en) ==
    /\ index # <<>>
    /\ RatLeq(st, en)
    /\ \/ RatLt(en, RatInt(index[1]))
       \/ RatLt(RatInt(index[Len(index)]), st)

\* C14: when the requested range lies entirely outside the bounds of a
\* non-empty series, the range query returns an empty slice (and raises no
\* error).
C14_OutsideIsEmpty ==
    (q_pc = "done" /\ OutsideSeries(time_index, q_args[1], q_args[2]))
        => q_slice = <<>> /\ q_out = <<>>

\* C26: on a series with a single sample get_visible_data returns exactly
\* that sample, for every range: the view times draw_chart passes,
\* view_start * max_time <= view_end * max_time within [0, max_time], and
\* every other range.
C26_SingleSample ==
    (q_pc = "done" /\ Len(bitrate_data) = 1)
        => q_slice = bitrate_data /\ q_out = bitrate_data

\* A view of the first half of the time axis, which ends before the time of
\* the only sample.
C26_Witness ==
    /\ q_pc = "done"
    /\ Len(bitrate_data) = 1
    /\ q_args[1] = Zero
    /\ RatLt(Zero, q_args[2])
    /\ RatLt(q_args[2], RatInt(time_index[1]))
    /\ q_out = bitrate_data

----------------------------------------------------------------------------
(* Session: the handlers of the UI thread and the analysis thread           *)

\* float(self.window_var.get()) (line 1117): the combo value "2.0"
AppWindowSize == 2

\* The value a setter writes: set_e_cores_only writes e_cores_mask and
\* "e_cores", set_all_cores writes all_cores_mask and "all".
MaskOf(which) ==
    IF which = "e" THEN e_cores_mask ELSE all_cores_mask

TypeOf(which) ==
    IF which = "e" THEN "e_cores" ELSE "all"

\* The early returns of set_e_cores_only (line 336) and set_all_cores
\* (line 344): does the call get to its writes?
SetterRuns(which) ==
    IF which = "e" THEN supported /\ e_cores_mask # {}
    ELSE which = "all" /\ all_cores_mask # {}

\* The four writes of a setter, in program order (lines 338-341, 346-349):
\* current_target_mask, current_target_type, shared_mask.value, and the
\* SetProcessAffinityMask call on the main process (taken to succeed).
SetterWrite(pc, which) ==
    /\ current_target_mask' = IF pc = "mask" THEN MaskOf(which) ELSE current_target_mask
    /\ current_target_type' = IF pc = "type" THEN TypeOf(which) ELSE current_target_type
    /\ shared_mask' = IF pc = "shared" THEN MaskOf(which) ELSE shared_mask
    /\ main_affinity' = IF pc = "affinity" THEN MaskOf(which) ELSE main_affinity
    /\ UNCHANGED <<windows, supported, all_cores_mask, e_cores_mask>>

SetterNext(pc) ==
    CASE pc = "mask" -> "type"
      [] pc = "type" -> "shared"
      [] pc = "shared" -> "affinity"
      [] OTHER -> "return"

SetterPc == {"mask", "type", "shared", "affinity"}

\* (variant: a restore calls no setter)
HandleWindowStateChangeNoRestore(sup, use_e, minimized, busy) ==
    IF ~sup \/ ~use_e THEN "none"
    ELSE IF minimized THEN (IF busy THEN "e" ELSE "none")
    ELSE "none"

\* _handle_window_state_change (lines 717-732): the setter it calls.
HandleWindowStateChange(sup, use_e, minimized, busy) ==
    IF ~sup \/ ~use_e THEN "none"
    ELSE IF minimized THEN (IF busy THEN "e" ELSE "none")
    ELSE "all"

\* (variant: switching the option off calls no setter)
OnECoreToggleOffKeeps(sup, use_e, minimized, busy) ==
    IF ~use_e THEN "none"
    ELSE HandleWindowStateChange(sup, use_e, minimized, busy)

\* on_e_core_toggle (lines 734-742) with the new value of the option: the
\* setter it calls.
OnECoreToggleCall(sup, use_e, minimized, busy) ==
    IF ~use_e THEN "all"
    ELSE HandleWindowStateChange(sup, use_e, minimized, busy)

\* start_analysis, lines 1077-1083: the setter it calls.
StartAnalysisCall(sup, use_e, minimized) ==
    IF sup /\ use_e
    THEN (IF minimized THEN "e" ELSE "all")
    ELSE "none"

\* The UI thread enters handler `handler`, which calls setter `which` (or
\* none): it stops before the setter's first write, or returns at once.
CtlCall(handler, which) ==
    IF which # "none" /\ SetterRuns(which)
    THEN c_pc' = "mask" /\ c_set' = which /\ c_handler' = handler
    ELSE c_pc' = "idle" /\ c_set' = "none" /\ c_handler' = "none"

\* draw_chart (lines 1460-1629) with the viewport (vs, ve): the new
\* chart_info and current_visible_data.  The canvas is at least 100 x 100
\* (root.minsize, line 412).
DrawChartAt(vs, ve) ==
    IF bitrate_data = <<>> THEN <<chart_info, current_visible_data>>
    ELSE LET max_time == IF time_index # <<>> THEN time_index[Len(time_index)] ELSE 1
             view_start_time == RatMul(vs, RatInt(max_time))
             view_end_time == RatMul(ve, RatInt(max_time))
             view_range == RatSub(ve, vs)
             max_points == IF RatLt(<<4, 5>>, view_range) THEN 800
                           ELSE IF RatLt(<<1, 2>>, view_range) THEN 1200
                           ELSE 1500
             visible_data == GetVisibleData(bitrate_data, time_index,
                                            view_start_time, view_end_time, max_points)
         IN  IF visible_data = <<>> THEN <<chart_info, current_visible_data>>
             ELSE <<[drawn |-> TRUE, view_start_time |-> view_start_time,
                     view_end_time |-> view_end_time], visible_data>>

DrawChart ==
    DrawChartAt(view_start, view_end)

\* draw_thumbnail (lines 1630-1652): the new thumbnail_info.
DrawThumbnail ==
    IF thumbnail_data = <<>> THEN thumbnail_info ELSE TRUE

viewStateVars == <<thumbnail_dragging, thumbnail_drag_mode, thumbnail_drag_start_x,
                   thumbnail_drag_start_view, chart_info, thumbnail_info,
                   pending_chart_draw, view_ops>>

\* _check_minimized_state (lines 676-699) on a poll that finds the window
\* iconic or not (`iconic`) and sees a change, with
\* _handle_window_state_change up to the setter it calls.  The polling runs
\* on Windows only (lines 655-659).
CheckMinimizedState(iconic) ==
    /\ windows
    /\ c_pc = "idle"
    /\ iconic # is_minimized
    /\ is_minimized' = iconic
    /\ CtlCall(IF iconic THEN "minimize" ELSE "restore",
               HandleWindowStateChange(supported, use_e_cores_when_minimized,
                                       iconic, analyzing))
    /\ UNCHANGED <<schedVars, use_e_cores_when_minimized, analyzing,
                   video_path, select_btn, window_combo,
                   a_pc, a_result, after_queue>>
    /\ UNCHANGED <<viewVars, dataVars, queryVars, engineVars, workerVars>>

\* on_e_core_toggle (lines 734-742); the check box exists on a supported
\* host only (lines 559-564).
OnECoreToggle ==
    /\ supported
    /\ c_pc = "idle"
    /\ use_e_cores_when_minimized' = ~use_e_cores_when_minimized
    /\ CtlCall("toggle",
               OnECoreToggleCall(supported, ~use_e_cores_when_minimized,
                                 is_minimized, analyzing))
    /\ UNCHANGED <<schedVars, is_minimized, analyzing,
                   video_path, select_btn, window_combo,
                   a_pc, a_result, after_queue>>
    /\ UNCHANGED <<viewVars, dataVars, queryVars, engineVars, workerVars>>

\* (variant: the analyzing flag is not set)
StartAnalysisWithoutFlag ==
    /\ ~analyzing
    /\ UNCHANGED analyzing
    /\ select_btn' = "disabled"
    /\ window_combo' = "disabled"
    /\ bitrate_data' = <<>>
    /\ time_index' = <<>>
    /\ thumbnail_data' = <<>>
    /\ current_visible_data' = <<>>
    /\ view_start' = Zero
    /\ view_end' = One
    /\ \E i \in Thread :
        /\ a_pc[i] = "none"
        /\ \A j \in 1..(i - 1) : a_pc[j] # "none"
        /\ LET which == StartAnalysisCall(supported, use_e_cores_when_minimized,
                                          is_minimized)
           IN  /\ CtlCall("start", which)
               /\ a_pc' = IF which # "none" /\ SetterRuns(which)
                          THEN [a_pc EXCEPT ![i] = "start"]
                          ELSE [a_pc EXCEPT ![i] = "run"]
    /\ UNCHANGED <<schedVars, is_minimized,
                   use_e_cores_when_minimized, a_result, after_queue>>
    /\ UNCHANGED <<viewStateVars, queryVars, engineVars, workerVars>>

\* start_analysis (lines 1052-1086) up to the setter it calls; the thread
\* is started when the setter has returned, or at once when none is called.
StartAnalysis ==
    /\ ~analyzing
    /\ analyzing' = TRUE
    /\ select_btn' = "disabled"
    /\ window_combo' = "disabled"
    /\ bitrate_data' = <<>>
    /\ time_index' = <<>>
    /\ thumbnail_data' = <<>>
    /\ current_visible_data' = <<>>
    /\ view_start' = Zero
    /\ view_end' = One
    /\ \E i \in Thread :
        /\ a_pc[i] = "none"
        /\ \A j \in 1..(i - 1) : a_pc[j] # "none"
        /\ LET which == StartAnalysisCall(supported, use_e_cores_when_minimized,
                                          is_minimized)
           IN  /\ CtlCall("start", which)
               /\ a_pc' = IF which # "none" /\ SetterRuns(which)
                          THEN [a_pc EXCEPT ![i] = "start"]
                          ELSE [a_pc EXCEPT ![i] = "run"]
    /\ UNCHANGED <<schedVars, is_minimized,
                   use_e_cores_when_minimized, a_result, after_queue>>
    /\ UNCHANGED <<viewStateVars, queryVars, engineVars, workerVars>>

\* select_video (lines 1032-1050) when a file is chosen in the dialog.
SelectVideoFrom(files) ==
    /\ c_pc = "idle"
    /\ select_btn = "normal"
    /\ video_path' \in files
    /\ StartAnalysis

SelectVideo ==
    SelectVideoFrom(AppVideo)

\* on_window_changed (lines 1028-1030) when it starts an analysis.
OnWindowChanged ==
    /\ c_pc = "idle"
    /\ window_combo = "readonly"
    /\ video_path.chosen
    /\ UNCHANGED video_path
    /\ StartAnalysis

\* One write of the setter the UI thread is in; after the last one the
\* handler returns (start_analysis then starts its thread).
CtlSetterStep ==
    /\ c_pc \in SetterPc
    /\ SetterWrite(c_pc, c_set)
    /\ IF SetterNext(c_pc) = "return"
       THEN /\ c_pc' = "idle"
            /\ c_set' = "none"
            /\ c_handler' = "none"
            /\ a_pc' = [i \in Thread |-> IF a_pc[i] = "start" THEN "run" ELSE a_pc[i]]
       ELSE /\ c_pc' = SetterNext(c_pc)
            /\ UNCHANGED <<c_set, c_handler, a_pc>>
    /\ UNCHANGED <<is_minimized, use_e_cores_when_minimized,
                   analyzing, video_path, select_btn, window_combo,
                   a_result, after_queue>>
    /\ UNCHANGED <<viewVars, dataVars, queryVars, engineVars, workerVars>>

\* A callback queued with root.after(0, ...) runs on the UI thread.
RunAfter ==
    /\ c_pc = "idle"
    /\ after_queue # <<>>
    /\ after_queue' = Tail(after_queue)
    /\ LET cb == Head(after_queue)
           drawn == DrawChart
       IN  /\ chart_info' = IF cb = "draw_chart" THEN drawn[1] ELSE chart_info
           /\ current_visible_data' = IF cb = "draw_chart" THEN drawn[2]
                                      ELSE current_visible_data
           /\ thumbnail_info' = IF cb = "draw_thumbnail" THEN DrawThumbnail
                                ELSE thumbnail_info
           /\ select_btn' = IF cb = "enable_select" THEN "normal" ELSE select_btn
           /\ window_combo' = IF cb = "enable_combo" THEN "readonly" ELSE window_combo
    /\ UNCHANGED <<schedVars, is_minimized,
                   use_e_cores_when_minimized, analyzing, video_path, c_pc, c_set,
                   c_handler, a_pc, a_result>>
    /\ UNCHANGED <<view_start, view_end, thumbnail_dragging, thumbnail_drag_mode,
                   thumbnail_drag_start_x, thumbnail_drag_start_view,
                   pending_chart_draw, view_ops>>
    /\ UNCHANGED <<dataVars, queryVars, engineVars, workerVars>>

\* total_cores: the bit count of the system mask on Windows, cpu_count()
\* elsewhere (lines 145-152, 174-177).
TotalCores ==
    IF all_cores_mask # {} THEN Cardinality(all_cores_mask)
    ELSE HybridPCores + HybridECores

\* (variant: the efficiency-core count is used without asking `supported`)
NumWorkersUnsupportedToo ==
    IF is_minimized /\ use_e_cores_when_minimized
    THEN Max(1, Cardinality(e_cores_mask))
    ELSE TotalCores

\* lines 1119-1122: the worker budget of a run.
NumWorkers ==
    IF supported /\ is_minimized /\ use_e_cores_when_minimized
    THEN Max(1, Cardinality(e_cores_mask))
    ELSE TotalCores

\* _analyze_thread, lines 1089-1124: ffprobe is run and the series computed.
\* Without a usable duration or without packets the thread goes straight to
\* its finally block (lines 1093-1095, 1111-1113).
AnalyzeRun(i) ==
    /\ a_pc[i] = "run"
    /\ IF video_path.duration > 0 /\ video_path.packets # <<>>
       THEN /\ a_result' = [a_result EXCEPT ![i] =
                    CalculateBitrateParallel(video_path.packets, video_path.duration,
                                             AppWindowSize, NumWorkers)]
            /\ a_pc' = [a_pc EXCEPT ![i] = "install_data"]
       ELSE /\ a_pc' = [a_pc EXCEPT ![i] = "finally"]
            /\ UNCHANGED a_result
    /\ UNCHANGED <<schedVars, is_minimized, use_e_cores_when_minimized,
                   analyzing, video_path, select_btn, window_combo, c_pc, c_set,
                   c_handler, after_queue>>
    /\ UNCHANGED <<viewVars, dataVars, queryVars, engineVars, workerVars>>

\* (variant: the result is installed without its last sample)
InstallDataWithoutLast(i) ==
    /\ a_pc[i] = "install_data"
    /\ bitrate_data' = SubSeq(a_result[i], 1, Len(a_result[i]) - 1)
    /\ a_pc' = [a_pc EXCEPT ![i] = "install_index"]
    /\ UNCHANGED <<time_index, thumbnail_data>>
    /\ UNCHANGED <<schedVars, is_minimized, use_e_cores_when_minimized,
                   analyzing, video_path, select_btn, window_combo, c_pc, c_set,
                   c_handler, a_result, after_queue>>
    /\ UNCHANGED <<viewVars, queryVars, engineVars, workerVars>>

\* line 1124: self.bitrate_data = <the result>
InstallData(i) ==
    /\ a_pc[i] = "install_data"
    /\ bitrate_data' = a_result[i]
    /\ a_pc' = [a_pc EXCEPT ![i] = "install_index"]
    /\ UNCHANGED <<time_index, thumbnail_data>>
    /\ UNCHANGED <<schedVars, is_minimized, use_e_cores_when_minimized,
                   analyzing, video_path, select_btn, window_combo, c_pc, c_set,
                   c_handler, a_result, after_queue>>
    /\ UNCHANGED <<viewVars, queryVars, engineVars, workerVars>>

\* line 1125: self.time_index = [d[0] for d in self.bitrate_data]
InstallIndex(i) ==
    /\ a_pc[i] = "install_index"
    /\ time_index' = TimesOf(bitrate_data)
    /\ a_pc' = [a_pc EXCEPT ![i] = "install_thumb"]
    /\ UNCHANGED <<bitrate_data, thumbnail_data>>
    /\ UNCHANGED <<schedVars, is_minimized, use_e_cores_when_minimized,
                   analyzing, video_path, select_btn, window_combo, c_pc, c_set,
                   c_handler, a_result, after_queue>>
    /\ UNCHANGED <<viewVars, queryVars, engineVars, workerVars>>

\* lines 1126-1132: prepare_thumbnail_data(), then the two redraws are
\* queued for the UI thread.
InstallThumb(i) ==
    /\ a_pc[i] = "install_thumb"
    /\ Len(after_queue) + 2 <= MaxPending
    /\ thumbnail_data' = PrepareThumbnailData(bitrate_data)
    /\ after_queue' = after_queue \o <<"draw_chart", "draw_thumbnail">>
    /\ a_pc' = [a_pc EXCEPT ![i] = "finally"]
    /\ UNCHANGED <<bitrate_data, time_index>>
    /\ UNCHANGED <<schedVars, is_minimized, use_e_cores_when_minimized,
                   analyzing, video_path, select_btn, window_combo, c_pc, c_set,
                   c_handler, a_result>>
    /\ UNCHANGED <<viewVars, queryVars, engineVars, workerVars>>

\* lines 1138-1141: analyzing = False, then set_all_cores() on a supported
\* host, up to its first write.
Finally(i) ==
    /\ a_pc[i] = "finally"
    /\ analyzing' = FALSE
    /\ a_pc' = [a_pc EXCEPT ![i] = IF supported /\ SetterRuns("all")
                                   THEN "mask" ELSE "enable"]
    /\ UNCHANGED <<schedVars, is_minimized, use_e_cores_when_minimized,
                   video_path, select_btn, window_combo, c_pc, c_set,
                   c_handler, a_result, after_queue>>
    /\ UNCHANGED <<viewVars, dataVars, queryVars, engineVars, workerVars>>

\* One write of set_all_cores on the analysis thread.
AnaSetterStep(i) ==
    /\ a_pc[i] \in SetterPc
    /\ SetterWrite(a_pc[i], "all")
    /\ a_pc' = [a_pc EXCEPT ![i] = IF SetterNext(a_pc[i]) = "return"
                                   THEN "enable" ELSE SetterNext(a_pc[i])]
    /\ UNCHANGED <<is_minimized, use_e_cores_when_minimized,
                   analyzing, video_path, select_btn, window_combo, c_pc, c_set,
                   c_handler, a_result, after_queue>>
    /\ UNCHANGED <<viewVars, dataVars, queryVars, engineVars, workerVars>>

\* The threads' table without entry i: the later entries move down and the
\* last one becomes free (the entries hold the live threads, oldest first).
Without(f, i, free) ==
    [j \in Thread |-> IF j < i THEN f[j]
                      ELSE IF j < MaxThreads THEN f[j + 1]
                      ELSE free]

\* lines 1143-1144: the two callbacks that enable the controls are queued;
\* the thread ends.
AnaEnable(i) ==
    /\ a_pc[i] = "enable"
    /\ Len(after_queue) + 2 <= MaxPending
    /\ after_queue' = after_queue \o <<"enable_select", "enable_combo">>
    /\ a_pc' = Without(a_pc, i, "none")
    /\ a_result' = Without(a_result, i, <<>>)
    /\ UNCHANGED <<schedVars, is_minimized, use_e_cores_when_minimized,
                   analyzing, video_path, select_btn, window_combo, c_pc, c_set,
                   c_handler>>
    /\ UNCHANGED <<viewVars, dataVars, queryVars, engineVars, workerVars>>

\* The whole try block of _analyze_thread (lines 1089-1132) in one step:
\* it reads and writes no scheduling state, so its own steps need not be
\* interleaved with the handlers that steer the affinity manager.
AnalyzeTry(i) ==
    /\ a_pc[i] = "run"
    /\ IF video_path.duration > 0 /\ video_path.packets # <<>>
       THEN /\ Len(after_queue) + 2 <= MaxPending
            /\ LET data == CalculateBitrateParallel(video_path.packets, video_path.duration,
                                                    AppWindowSize, NumWorkers)
               IN  /\ bitrate_data' = data
                   /\ time_index' = TimesOf(data)
                   /\ thumbnail_data' = PrepareThumbnailData(data)
            /\ after_queue' = after_queue \o <<"draw_chart", "draw_thumbnail">>
       ELSE UNCHANGED <<dataVars, after_queue>>
    /\ a_pc' = [a_pc EXCEPT ![i] = "finally"]
    /\ UNCHANGED <<schedVars, is_minimized, use_e_cores_when_minimized,
                   analyzing, video_path, select_btn, window_combo, c_pc, c_set,
                   c_handler, a_result>>
    /\ UNCHANGED <<viewVars, queryVars, engineVars, workerVars>>

\* The analysis thread with its try block in one step.
AnalyzeThread(i) ==
    \/ AnalyzeTry(i)
    \/ Finally(i)
    \/ AnaSetterStep(i)
    \/ AnaEnable(i)

\* The analysis thread on a host without affinity scheduling, where
\* set_all_cores returns at its first test (line 344).
AnalyzeThreadUnmanaged(i) ==
    \/ AnalyzeTry(i)
    \/ Finally(i)
    \/ AnaEnable(i)

\* The analysis thread statement by statement.
AnalyzeThreadSteps(i) ==
    \/ AnalyzeRun(i)
    \/ InstallData(i)
    \/ InstallIndex(i)
    \/ InstallThumb(i)
    \/ Finally(i)
    \/ AnaSetterStep(i)
    \/ AnaEnable(i)

Init ==
    /\ EngineIdle
    /\ DataEmpty
    /\ QueryIdle
    /\ \E host \in Host : InitManager(host)
    /\ InitAnalyzer
    /\ InitWorker

Next ==
    \/ \E iconic \in BOOLEAN : CheckMinimizedState(iconic)
    \/ OnECoreToggle
    \/ SelectVideo
    \/ OnWindowChanged
    \/ CtlSetterStep
    \/ RunAfter
    \/ \E i \in Thread : AnalyzeThread(i)

Spec == Init /\ [][Next]_vars

----------------------------------------------------------------------------
(* Session: properties of the affinity scheduling                           *)

\* The UI thread leaves the handler of a detected minimize that called
\* set_e_cores_only (supported host, option on, analysis active when the
\* change was detected).
MinimizeHandled ==
    c_handler = "minimize" /\ c_pc = "affinity" /\ c_pc' = "idle"

\* C4: on a supported host, when a minimize is detected while an analysis is
\* active and the option is on, then after the event is handled
\* current_target_mask and shared_mask both equal e_cores_mask.
C4_MinimizeMovesToEfficiency ==
    [][MinimizeHandled =>
          (current_target_mask' = e_cores_mask /\ shared_mask' = e_cores_mask)]_vars

\* The UI thread leaves the handler of a detected restore: at once when no
\* setter is called, or after the last statement of set_all_cores.
RestoreHandled ==
    \/ c_pc = "idle" /\ is_minimized /\ ~is_minimized' /\ c_pc' = "idle"
    \/ c_handler = "restore" /\ c_pc = "affinity" /\ c_pc' = "idle"

\* C5: once a detected restore has been handled the target is AllCores
\* (current_target_mask and shared_mask equal all_cores_mask, the type is
\* "all"), with the option on or off and whatever happened before.
C5_RestoreResetsToAllCores ==
    [][RestoreHandled =>
          /\ shared_mask' = all_cores_mask
          /\ current_target_mask' = all_cores_mask
          /\ current_target_type' = "all"]_vars

\* The restore handler is at the last statement of set_all_cores: the target
\* is back on all cores and the process itself is still on the efficiency
\* cores it was moved to.
C5_Witness ==
    /\ c_handler = "restore"
    /\ c_pc = "affinity"
    /\ ~is_minimized
    /\ shared_mask = all_cores_mask
    /\ main_affinity = e_cores_mask
    /\ e_cores_mask # all_cores_mask

\* C6: with the option off and no handler of the UI thread under way, the
\* target is AllCores: switching the option off forces it (minimized or
\* not, analysing or not), and no minimize, restore or analysis start that
\* follows while the option stays off moves it to the efficiency cores.
C6_OptOutKeepsAllCores ==
    (~use_e_cores_when_minimized /\ c_pc = "idle") =>
        /\ current_target_mask = all_cores_mask
        /\ current_target_type = "all"
        /\ shared_mask = all_cores_mask

\* The option was switched off and an analysis was started afterwards while
\* the window is minimized.
C6_Witness ==
    /\ ~use_e_cores_when_minimized
    /\ c_pc = "idle"
    /\ is_minimized
    /\ analyzing
    /\ \E i \in Thread : a_pc[i] = "run"
    /\ shared_mask = all_cores_mask
    /\ e_cores_mask # {}

\* The scheduler is in AllCores.
AllCores ==
    /\ current_target_type = "all"
    /\ current_target_mask = all_cores_mask
    /\ shared_mask = all_cores_mask

\* C23: the scheduler is in AllCores until the first analysis is started,
\* and on a host without the capability (supported = FALSE) it is in AllCores
\* in every state, whatever minimize, restore, toggle, analysis start and
\* analysis end events have happened; no setter there changes the target or
\* the affinity of the process, and a run's worker budget is the logical
\* core count.
C23_UnsupportedStaysAllCores ==
    /\ video_path = NoFile => AllCores
    /\ ~supported
          => /\ AllCores
             /\ main_affinity = all_cores_mask
             /\ c_set # "e"
             /\ (\E i \in Thread : a_pc[i] = "run") => NumWorkers = TotalCores

\* On a host without the capability an analysis runs while the window is
\* minimized with the option on, after an earlier analysis has ended.
C23_Witness ==
    /\ ~supported
    /\ windows
    /\ is_minimized
    /\ use_e_cores_when_minimized
    /\ analyzing
    /\ \E i \in Thread : a_pc[i] = "run"
    /\ bitrate_data = <<>>
    /\ after_queue # <<>>
    /\ AllCores

\* The positions of an analysis thread from start_analysis to the line that
\* clears the flag (line 1139).
InRun == {"start", "run", "install_data", "install_index", "install_thumb",
          "finally"}

C35_EfficiencyOnlyWhileAnalyzing ==
    (/\ ~analyzing
     /\ c_pc = "idle"
     /\ \A i \in Thread : a_pc[i] \in {"none", "enable"})
        => /\ current_target_type = "all"
           /\ current_target_mask = all_cores_mask
           /\ shared_mask = all_cores_mask

\* C36: on a host where the manager is supported, whenever no thread is
\* inside set_all_cores or set_e_cores_only, shared_mask.value equals current_target_mask, and current_target_type is
\* "e_cores" exactly when that mask is the efficiency mask and "all" exactly
\* when it is the all-cores mask.
C36_TargetConsistent ==
    (supported /\ c_pc = "idle" /\ \A i \in Thread : a_pc[i] \notin SetterPc)
        => /\ shared_mask = current_target_mask
           /\ (current_target_type = "e_cores") <=> (current_target_mask = e_cores_mask)
           /\ (current_target_type = "all") <=> (current_target_mask = all_cores_mask)

\* C22: every write of the target mask is made by a setter running on the UI
\* thread, so the setters run one after the other: no analysis thread is
\* inside set_all_cores or set_e_cores_only, and so none is while the UI
\* thread is inside one.
C22_WritesOnControlThreadOnly ==
    /\ \A i \in Thread : a_pc[i] \notin SetterPc
    /\ ~(c_pc \in SetterPc /\ \E i \in Thread : a_pc[i] \in SetterPc)

----------------------------------------------------------------------------
(* Worker: a pool process that polls the shared mask                        *)

\* The workers of a pool do not interact; the model follows one of them
\* through _worker_init and the chunks it is given, next to a scheduler that
\* switches the target.  SetProcessAffinityMask is taken to succeed.

\* `i % 200` (line 95)
AffinityCheckEvery == 200

\* Longest chunk: long enough to pass the first re-check.
MaxChunkLen == 202
ChunkLen == {1, MaxChunkLen}

\* _apply_current_affinity(force) (lines 39-77): the worker's new affinity
\* and _last_applied_mask.
ApplyCurrentAffinity(force) ==
    IF shared_mask = {} THEN <<w_affinity, last_applied_mask>>
    ELSE IF ~force /\ shared_mask = last_applied_mask
         THEN <<w_affinity, last_applied_mask>>
    ELSE IF windows THEN <<shared_mask, shared_mask>>
    ELSE <<w_affinity, last_applied_mask>>

\* (variant: the mask is re-read half as often)
PollDueRarely(i) ==
    i > 0 /\ i % (2 * AffinityCheckEvery) = 0

\* if i > 0 and i % 200 == 0 (line 95)
PollDue(i) ==
    i > 0 /\ i % AffinityCheckEvery = 0

\* _worker_init (lines 32-36)
WorkerInit ==
    /\ w_pc = "init"
    /\ w_pc' = "ready"
    /\ w_affinity' = ApplyCurrentAffinity(TRUE)[1]
    /\ last_applied_mask' = ApplyCurrentAffinity(TRUE)[2]
    /\ w_behind' = FALSE
    /\ UNCHANGED <<w_i, w_total, w_since>>
    /\ UNCHANGED <<sessionVars, dataVars, queryVars, engineVars>>

\* _calculate_chunk, lines 82-85: the call on a chunk of n time points, up
\* to the loop.
ChunkStart(n) ==
    /\ w_pc = "ready"
    /\ w_pc' = "compute"
    /\ w_i' = 0
    /\ w_total' = n
    /\ w_affinity' = ApplyCurrentAffinity(FALSE)[1]
    /\ last_applied_mask' = ApplyCurrentAffinity(FALSE)[2]
    /\ w_behind' = FALSE
    /\ UNCHANGED w_since
    /\ UNCHANGED <<sessionVars, dataVars, queryVars, engineVars>>

\* lines 88-93: time point i is processed.
Compute ==
    /\ w_pc = "compute"
    /\ w_pc' = "poll"
    /\ w_since' = Min(w_since + 1, AffinityCheckEvery + 2)
    /\ UNCHANGED <<w_i, w_total, last_applied_mask, w_affinity, w_behind>>
    /\ UNCHANGED <<sessionVars, dataVars, queryVars, engineVars>>

\* lines 95-96 and the loop's next iteration or the return.
Poll ==
    /\ w_pc = "poll"
    /\ IF PollDue(w_i)
       THEN /\ w_affinity' = ApplyCurrentAffinity(FALSE)[1]
            /\ last_applied_mask' = ApplyCurrentAffinity(FALSE)[2]
            /\ w_behind' = FALSE
       ELSE UNCHANGED <<w_affinity, last_applied_mask, w_behind>>
    /\ IF w_i + 1 < w_total
       THEN w_i' = w_i + 1 /\ w_pc' = "compute"
       ELSE w_i' = w_i /\ w_pc' = "ready"
    /\ UNCHANGED <<w_total, w_since>>
    /\ UNCHANGED <<sessionVars, dataVars, queryVars, engineVars>>

\* set_e_cores_only / set_all_cores (lines 335-349) run to their end in the
\* main process.
SetTarget(which) ==
    /\ SetterRuns(which)
    /\ current_target_mask' = MaskOf(which)
    /\ current_target_type' = TypeOf(which)
    /\ shared_mask' = MaskOf(which)
    /\ main_affinity' = MaskOf(which)
    /\ IF MaskOf(which) # shared_mask
       THEN w_since' = 0 /\ w_behind' = TRUE
       ELSE UNCHANGED <<w_since, w_behind>>
    /\ UNCHANGED <<windows, supported, all_cores_mask, e_cores_mask>>
    /\ UNCHANGED <<w_pc, w_i, w_total, last_applied_mask, w_affinity>>
    /\ UNCHANGED <<appVars, viewVars, dataVars, queryVars, engineVars>>

InitWorkerRun ==
    /\ EngineIdle
    /\ DataEmpty
    /\ QueryIdle
    /\ InitManager(HybridHost)
    /\ InitAnalyzer
    /\ InitWorker

NextWorker ==
    \/ WorkerInit
    \/ \E n \in ChunkLen : ChunkStart(n)
    \/ Compute
    \/ Poll
    \/ \E which \in {"e", "all"} : SetTarget(which)

SpecWorker == InitWorkerRun /\ [][NextWorker]_vars

\* C7 as stated: a started worker runs with the shared mask unless the mask
\* was changed after the worker last read it, and then the worker has
\* processed no more than 200 time points since the change.
C7_AppliedWithin200 ==
    w_pc # "init" =>
        IF w_behind THEN w_since <= AffinityCheckEvery
        ELSE w_affinity = shared_mask

\* C7: a worker applies the shared mask when it starts, and after a change
\* of the shared mask it re-reads and applies the new mask before it has
\* processed more than 201 further time points (the first re-check of a
\* chunk comes after the time points 0 .. 200).
C7_AppliedWithin201 ==
    w_pc # "init" =>
        IF w_behind THEN w_since <= AffinityCheckEvery + 1
        ELSE w_affinity = shared_mask

\* The switch to the efficiency cores came right after the worker read the
\* mask at the start of a chunk: 201 time points later the worker is still
\* on all cores, about to re-read the mask.
C7_Witness ==
    /\ w_pc = "poll"
    /\ w_i = AffinityCheckEvery
    /\ w_behind
    /\ w_since = AffinityCheckEvery + 1
    /\ shared_mask = e_cores_mask
    /\ w_affinity = all_cores_mask

----------------------------------------------------------------------------
(* Viewport: zoom, wheel and thumbnail handlers                             *)

\* min_view_range = 0.005 (line 434)
MinViewRange == <<1, 200>>

\* zoom(1.5) and zoom(0.67) of the two buttons (lines 612-613)
ZoomFactor == {<<3, 2>>, <<67, 100>>}

\* factor = 1.3 / 0.77 of on_mouse_wheel (lines 1796-1799)
WheelFactor == {<<13, 10>>, <<77, 100>>}

\* Geometry at dpi_scale 1: the chart margins int(85 * scale) and
\* int(30 * scale), the thumbnail margin int(10 * scale), the grab distance
\* int(10 * dpi_scale) of a handle, and the widths of the two canvases.
ChartMarginLeft == 85
ChartMarginRight == 30
ThumbMargin == 10
HandleW == 10
CanvasWidth == 515
ThumbnailWidth == 420

\* info["chart_w"] of chart_info and of thumbnail_info
ChartW == CanvasWidth - ChartMarginLeft - ChartMarginRight
ThumbChartW == ThumbnailWidth - ThumbMargin - ThumbMargin

\* event.x of the events the user produces: on the thumbnail the left end
\* and the right end of the curve; on the chart its middle, its right end and
\* a point in the left margin.
ThumbX == {ThumbMargin, ThumbMargin + ThumbChartW}
ChartX == {ChartMarginLeft + (k * ChartW) \div 2 : k \in 1..2} \cup {0}

MaxViewOps == 3

Half == <<1, 2>>

RatAbs(a) ==
    <<Abs(a[1]), a[2]>>

\* if new_start < 0: new_start = 0; new_end = <range>
\* if new_end > 1: new_end = 1; new_start = 1 - <range>
ShiftInto(new_start, new_end, range) ==
    LET s1 == IF RatLt(new_start, Zero) THEN Zero ELSE new_start
        e1 == IF RatLt(new_start, Zero) THEN range ELSE new_end
    IN  IF RatLt(One, e1) THEN <<RatSub(One, range), One>> ELSE <<s1, e1>>

\* (variant: the new range has no lower bound)
NewRangeNoMinimum(current_range, factor) ==
    RatMin(One, RatDiv(current_range, factor))

\* new_range = max(self.min_view_range, min(1.0, current_range / factor))
NewRange(current_range, factor) ==
    RatMax(MinViewRange, RatMin(One, RatDiv(current_range, factor)))

\* (variant: the new range is laid out from the old view_start)
ZoomedViewFromStart(vs, ve, factor) ==
    LET new_range == NewRange(RatSub(ve, vs), factor)
        moved == ShiftInto(vs, RatAdd(vs, new_range), new_range)
    IN  <<RatMax(Zero, moved[1]), RatMin(One, moved[2])>>

\* zoom (lines 1754-1774): the new (view_start, view_end).
ZoomedView(vs, ve, factor) ==
    LET center == RatMul(RatAdd(vs, ve), Half)
        new_range == NewRange(RatSub(ve, vs), factor)
        moved == ShiftInto(RatSub(center, RatMul(new_range, Half)),
                           RatAdd(center, RatMul(new_range, Half)), new_range)
    IN  <<RatMax(Zero, moved[1]), RatMin(One, moved[2])>>

\* on_mouse_wheel (lines 1802-1826): the new (view_start, view_end).
WheeledView(vs, ve, factor, x) ==
    LET current_range == RatSub(ve, vs)
        rel_x == Rat(x - ChartMarginLeft, ChartW)
        center == IF ChartMarginLeft <= x /\ x <= CanvasWidth - ChartMarginRight
                  THEN RatAdd(vs, RatMul(rel_x, current_range))
                  ELSE RatMul(RatAdd(vs, ve), Half)
        new_range == NewRange(current_range, factor)
        left_ratio == IF RatLt(Zero, current_range)
                      THEN RatDiv(RatSub(center, vs), current_range)
                      ELSE Half
        new_start == RatSub(center, RatMul(left_ratio, new_range))
        moved == ShiftInto(new_start, RatAdd(new_start, new_range), new_range)
    IN  <<RatMax(Zero, moved[1]), RatMin(One, moved[2])>>

\* on_thumbnail_press (lines 1840-1877): the drag mode and the new view.
\* A press outside the selection centres the selection on the pointer.
PressedView(vs, ve, x) ==
    LET x1 == RatAdd(RatInt(ThumbMargin), RatMul(vs, RatInt(ThumbChartW)))
        x2 == RatAdd(RatInt(ThumbMargin), RatMul(ve, RatInt(ThumbChartW)))
        rel_x == RatMax(Zero, RatMin(One, Rat(x - ThumbMargin, ThumbChartW)))
        view_range == RatSub(ve, vs)
    IN  IF RatLt(RatAbs(RatSub(RatInt(x), x1)), RatInt(HandleW))
        THEN [mode |-> "left", view |-> <<vs, ve>>, drawn |-> FALSE]
        ELSE IF RatLt(RatAbs(RatSub(RatInt(x), x2)), RatInt(HandleW))
        THEN [mode |-> "right", view |-> <<vs, ve>>, drawn |-> FALSE]
        ELSE IF RatLt(x1, RatInt(x)) /\ RatLt(RatInt(x), x2)
        THEN [mode |-> "move", view |-> <<vs, ve>>, drawn |-> FALSE]
        ELSE [mode |-> "move",
              view |-> ShiftInto(RatSub(rel_x, RatMul(view_range, Half)),
                                 RatAdd(rel_x, RatMul(view_range, Half)), view_range),
              drawn |-> TRUE]

\* on_thumbnail_drag (lines 1891-1918): the new (view_start, view_end) from
\* the view stored at the press, the distance dragged and the mode.
DraggedView(vs, ve, start_view, mode, dx) ==
    LET d_ratio == Rat(dx, ThumbChartW)
        start_view_start == start_view[1]
        start_view_end == start_view[2]
    IN  IF mode = "move"
        THEN ShiftInto(RatAdd(start_view_start, d_ratio),
                       RatAdd(start_view_end, d_ratio),
                       RatSub(start_view_end, start_view_start))
        ELSE IF mode = "left"
        THEN <<RatMax(Zero, RatMin(RatSub(start_view_end, MinViewRange),
                                   RatAdd(start_view_start, d_ratio))), ve>>
        ELSE IF mode = "right"
        THEN <<vs, RatMax(RatAdd(start_view_start, MinViewRange),
                          RatMin(One, RatAdd(start_view_end, d_ratio)))>>
        ELSE <<vs, ve>>

\* zoom(factor) (lines 1754-1778) on a loaded series, with its draw_chart.
Zoom(factor) ==
    /\ c_pc = "idle"
    /\ bitrate_data # <<>>
    /\ view_ops < MaxViewOps
    /\ view_ops' = view_ops + 1
    /\ LET view == ZoomedView(view_start, view_end, factor)
           drawn == DrawChartAt(view[1], view[2])
       IN  /\ view_start' = view[1]
           /\ view_end' = view[2]
           /\ chart_info' = drawn[1]
           /\ current_visible_data' = drawn[2]
    /\ UNCHANGED <<thumbnail_dragging, thumbnail_drag_mode, thumbnail_drag_start_x,
                   thumbnail_drag_start_view, thumbnail_info, pending_chart_draw>>
    /\ UNCHANGED <<schedVars, appVars, dataVars, queryVars, engineVars, workerVars>>

\* reset_view (lines 1780-1785), also reached by a double click on the
\* thumbnail (line 1943).
ResetView ==
    /\ c_pc = "idle"
    /\ view_start' = Zero
    /\ view_end' = One
    /\ LET drawn == DrawChartAt(Zero, One)
       IN  /\ chart_info' = drawn[1]
           /\ current_visible_data' = drawn[2]
    /\ UNCHANGED <<thumbnail_dragging, thumbnail_drag_mode, thumbnail_drag_start_x,
                   thumbnail_drag_start_view, thumbnail_info, pending_chart_draw,
                   view_ops>>
    /\ UNCHANGED <<schedVars, appVars, dataVars, queryVars, engineVars, workerVars>>

\* on_mouse_wheel (lines 1792-1830) on either canvas, past its early return.
OnMouseWheel(factor, x) ==
    /\ c_pc = "idle"
    /\ bitrate_data # <<>>
    /\ chart_info.drawn
    /\ view_ops < MaxViewOps
    /\ view_ops' = view_ops + 1
    /\ LET view == WheeledView(view_start, view_end, factor, x)
           drawn == DrawChartAt(view[1], view[2])
       IN  /\ view_start' = view[1]
           /\ view_end' = view[2]
           /\ chart_info' = drawn[1]
           /\ current_visible_data' = drawn[2]
    /\ UNCHANGED <<thumbnail_dragging, thumbnail_drag_mode, thumbnail_drag_start_x,
                   thumbnail_drag_start_view, thumbnail_info, pending_chart_draw>>
    /\ UNCHANGED <<schedVars, appVars, dataVars, queryVars, engineVars, workerVars>>

\* on_thumbnail_press (lines 1832-1880), past its early return.
OnThumbnailPress(x) ==
    /\ c_pc = "idle"
    /\ thumbnail_info
    /\ bitrate_data # <<>>
    /\ view_ops < MaxViewOps
    /\ view_ops' = view_ops + 1
    /\ LET pressed == PressedView(view_start, view_end, x)
           drawn == DrawChartAt(pressed.view[1], pressed.view[2])
       IN  /\ thumbnail_dragging' = TRUE
           /\ thumbnail_drag_mode' = pressed.mode
           /\ view_start' = pressed.view[1]
           /\ view_end' = pressed.view[2]
           /\ thumbnail_drag_start_x' = x
           /\ thumbnail_drag_start_view' = pressed.view
           /\ chart_info' = IF pressed.drawn THEN drawn[1] ELSE chart_info
           /\ current_visible_data' = IF pressed.drawn THEN drawn[2]
                                      ELSE current_visible_data
    /\ UNCHANGED <<thumbnail_info, pending_chart_draw>>
    /\ UNCHANGED <<schedVars, appVars, dataVars, queryVars, engineVars, workerVars>>

\* on_thumbnail_drag (lines 1882-1926), past its early return: the view
\* moves and the redraw of the chart is put off by 100 ms.
OnThumbnailDrag(x) ==
    /\ c_pc = "idle"
    /\ thumbnail_dragging
    /\ thumbnail_info
    /\ view_ops < MaxViewOps
    /\ view_ops' = view_ops + 1
    /\ LET view == DraggedView(view_start, view_end, thumbnail_drag_start_view,
                               thumbnail_drag_mode, x - thumbnail_drag_start_x)
       IN  /\ view_start' = view[1]
           /\ view_end' = view[2]
    /\ pending_chart_draw' = "pending"
    /\ UNCHANGED <<thumbnail_dragging, thumbnail_drag_mode, thumbnail_drag_start_x,
                   thumbnail_drag_start_view, chart_info, thumbnail_info,
                   current_visible_data>>
    /\ UNCHANGED <<schedVars, appVars, dataVars, queryVars, engineVars, workerVars>>

\* on_thumbnail_release (lines 1928-1940), past its early return.
OnThumbnailRelease ==
    /\ c_pc = "idle"
    /\ thumbnail_dragging
    /\ thumbnail_dragging' = FALSE
    /\ thumbnail_drag_mode' = "none"
    /\ pending_chart_draw' = "none"
    /\ LET drawn == DrawChart
       IN  /\ chart_info' = drawn[1]
           /\ current_visible_data' = drawn[2]
    /\ UNCHANGED <<view_start, view_end, thumbnail_drag_start_x,
                   thumbnail_drag_start_view, thumbnail_info, view_ops>>
    /\ UNCHANGED <<schedVars, appVars, dataVars, queryVars, engineVars, workerVars>>

\* The redraw put off by on_thumbnail_drag comes due: draw_chart runs; the
\* id stays in pending_chart_draw.
PendingChartDraw ==
    /\ c_pc = "idle"
    /\ pending_chart_draw = "pending"
    /\ pending_chart_draw' = "due"
    /\ LET drawn == DrawChart
       IN  /\ chart_info' = drawn[1]
           /\ current_visible_data' = drawn[2]
    /\ UNCHANGED <<view_start, view_end, thumbnail_dragging, thumbnail_drag_mode,
                   thumbnail_drag_start_x, thumbnail_drag_start_view,
                   thumbnail_info, view_ops>>
    /\ UNCHANGED <<schedVars, appVars, dataVars, queryVars, engineVars, workerVars>>

\* A session on a host without affinity scheduling.
InitView ==
    /\ EngineIdle
    /\ DataEmpty
    /\ QueryIdle
    /\ InitManager(OtherHost)
    /\ InitAnalyzer
    /\ InitWorker

NextView ==
    \/ SelectVideo
    \/ OnWindowChanged
    \/ RunAfter
    \/ \E i \in Thread : AnalyzeThreadUnmanaged(i)
    \/ \E factor \in ZoomFactor : Zoom(factor)
    \/ ResetView
    \/ \E factor \in WheelFactor, x \in ChartX : OnMouseWheel(factor, x)
    \/ \E x \in ThumbX : OnThumbnailPress(x)
    \/ \E x \in ThumbX : OnThumbnailDrag(x)
    \/ OnThumbnailRelease
    \/ PendingChartDraw

SpecView == InitView /\ [][NextView]_vars

----------------------------------------------------------------------------
(* Viewport: zoom(factor) for any factor > 0                                *)

\* The factors of Scenario C (2, then 1 / 0.25), a factor that takes the
\* range of Scenario C below min_view_range, a factor below 1, and the
\* factors of the two buttons.
ScenarioFactor == {<<2, 1>>, <<4, 1>>, <<32, 1>>, <<1, 2>>}
AnyZoomFactor == ScenarioFactor \cup ZoomFactor

NextZoom ==
    \/ SelectVideo
    \/ RunAfter
    \/ \E i \in Thread : AnalyzeThreadUnmanaged(i)
    \/ \E factor \in AnyZoomFactor : Zoom(factor)

SpecZoom == InitView /\ [][NextZoom]_vars

\* min_view_range <= x <= 1
ClampRange(x) ==
    RatMax(MinViewRange, RatMin(One, x))

\* C24: a step zoom(factor) on a loaded series makes the visible range
\* clamp((view_end - view_start) / factor, min_view_range, 1), and keeps the
\* centre of the view when the new range around the old centre stays inside
\* [0, 1]; from the view (0, 1), zoom(2) gives (0.25, 0.75).
C24_ZoomRangeAndCentre ==
    [][\A factor \in AnyZoomFactor :
          Zoom(factor) =>
              LET range == ClampRange(RatDiv(RatSub(view_end, view_start), factor))
                  centre == RatMul(RatAdd(view_start, view_end), Half)
                  inside == /\ RatLeq(Zero, RatSub(centre, RatMul(range, Half)))
                            /\ RatLeq(RatAdd(centre, RatMul(range, Half)), One)
              IN  /\ RatSub(view_end', view_start') = range
                  /\ inside => RatMul(RatAdd(view_start', view_end'), Half) = centre
                  /\ (view_start = Zero /\ view_end = One /\ factor = <<2, 1>>)
                        => view_start' = Rat(1, 4) /\ view_end' = Rat(3, 4)]_vars

\* The view after zoom(2) from the full view, then zoom(0.67): the range
\* grew around the kept centre.
C24_Witness ==
    /\ view_ops = 2
    /\ RatMul(RatAdd(view_start, view_end), Half) = Half
    /\ RatSub(view_end, view_start) = RatDiv(Half, <<67, 100>>)

\* The view is that of Scenario C after its first step.
ScenarioCView ==
    view_start = Rat(1, 4) /\ view_end = Rat(3, 4)

\* C25 as stated: from the view (0.25, 0.75), zoom(1 / 0.25) gives a view
\* whose range is min_view_range, with view_start < view_end.
C25_SecondStepSaturates ==
    [][(ScenarioCView /\ Zoom(<<4, 1>>))
          => /\ RatSub(view_end', view_start') = MinViewRange
             /\ RatLt(view_start', view_end')]_vars

\* C25: from the view (0.25, 0.75), zoom(1 / 0.25) gives the view
\* (0.4375, 0.5625): its range 0.125 is above min_view_range, and
\* view_start < view_end.  A zoom that would take the range below
\* min_view_range gives a range of exactly min_view_range, with
\* view_start < view_end.
C25_SecondStep ==
    [][/\ (ScenarioCView /\ Zoom(<<4, 1>>))
            => /\ view_start' = Rat(7, 16)
               /\ view_end' = Rat(9, 16)
               /\ RatLt(MinViewRange, RatSub(view_end', view_start'))
       /\ \A factor \in AnyZoomFactor :
            (Zoom(factor)
               /\ RatLt(RatDiv(RatSub(view_end, view_start), factor), MinViewRange))
              => /\ RatSub(view_end', view_start') = MinViewRange
                 /\ RatLt(view_start', view_end')]_vars

\* Scenario C after its second step.
C25_Witness ==
    /\ view_ops = 2
    /\ view_start = Rat(7, 16)
    /\ view_end = Rat(9, 16)

\* C38: panning never changes the zoom level: every drag event in mode
\* 'move' and every press outside the selection box (which recentres the
\* selection) leaves view_end - view_start as it was just before the
\* event.
C38_PanKeepsRange ==
    [][(\E x \in ThumbX :
           \/ OnThumbnailDrag(x) /\ thumbnail_drag_mode = "move"
           \/ OnThumbnailPress(x) /\ PressedView(view_start, view_end, x).drawn)
        => RatSub(view_end', view_start') = RatSub(view_end, view_start)]_vars

\* The view times the chart was last drawn for are those of the viewport.
ChartAtView ==
    LET max_time == IF time_index # <<>> THEN time_index[Len(time_index)] ELSE 1
    IN  /\ chart_info.drawn
        /\ chart_info.view_start_time = RatMul(view_start, RatInt(max_time))
        /\ chart_info.view_end_time = RatMul(view_end, RatInt(max_time))

\* A draw_chart queued with root.after(0, ...) by an analysis run has not
\* run yet.
DrawQueued ==
    \E k \in 1..Len(after_queue) : after_queue[k] = "draw_chart"

----------------------------------------------------------------------------
(* Session: the series from its installation to its replacement            *)

\* The packets of a long recording: 250 bytes in every other second, and in
\* the two seconds q - 1 and q next to each other, so that every window of
\* AppWindowSize seconds holds 250 bytes (1 kbps) and the one that starts at
\* q - 1 holds 500 (2 kbps).
LongPackets(n, q) ==
    LET sec == SelectSeq([j \in 1..n |-> j - 1],
                         LAMBDA j : IF j >= q THEN (j - q) % 2 = 0
                                    ELSE (q - 1 - j) % 2 = 0)
    IN  [k \in 1..Len(sec) |-> Pkt(PtsOf(sec[k]), 250)]

\* What get_video_info and get_packets_data report for that recording.
LongVideo(n, q) ==
    [chosen |-> TRUE, duration |-> n - 1, packets |-> LongPackets(n, q)]

\* The recordings of n - 1 seconds whose series (n samples) is longer than
\* the budget of the overview, the peak near the start or near the budget.
LongRecording ==
    {r \in LongLengths \X {2, 3, MaxThumbPoints, MaxThumbPoints + 1} :
        (r[1] - 1 - r[2]) % 2 = 0}

\* The series of such a recording: n samples of 1 kbps, 2 kbps at time q.
LongResult(r) ==
    TestSeries(r[1], 0, r[2])

\* _analyze_thread at line 1124 for a long recording: start_analysis has
\* run (lines 1052-1086), ffprobe has been read and calculate_bitrate_parallel
\* has returned the series of the recording, which is not yet installed.
InitSeries ==
    /\ EngineIdle
    /\ DataEmpty
    /\ QueryIdle
    /\ InitManager(OtherHost)
    /\ InitWorker
    /\ is_minimized = FALSE
    /\ use_e_cores_when_minimized = TRUE
    /\ analyzing = TRUE
    /\ select_btn = "disabled"
    /\ window_combo = "disabled"
    /\ c_pc = "idle"
    /\ c_set = "none"
    /\ c_handler = "none"
    /\ \E r \in LongRecording :
          /\ video_path = LongVideo(r[1], r[2])
          /\ a_result = [i \in Thread |-> IF i = 1 THEN LongResult(r) ELSE <<>>]
    /\ a_pc = [i \in Thread |-> IF i = 1 THEN "install_data" ELSE "none"]
    /\ after_queue = <<>>
    /\ view_start = Zero
    /\ view_end = One
    /\ thumbnail_dragging = FALSE
    /\ thumbnail_drag_mode = "none"
    /\ thumbnail_drag_start_x = 0
    /\ thumbnail_drag_start_view = <<Zero, One>>
    /\ chart_info = NoChartInfo
    /\ thumbnail_info = FALSE
    /\ pending_chart_draw = "none"
    /\ current_visible_data = <<>>
    /\ view_ops = 0

\* The analysis thread statement by statement on a host without affinity
\* scheduling, the redraws, and the choice of another file.
NextSeries ==
    \/ SelectVideo
    \/ RunAfter
    \/ \E i \in Thread : AnalyzeRun(i)
    \/ \E i \in Thread : InstallData(i)
    \/ \E i \in Thread : InstallIndex(i)
    \/ \E i \in Thread : InstallThumb(i)
    \/ \E i \in Thread : Finally(i)
    \/ \E i \in Thread : AnaEnable(i)

SpecSeries == InitSeries /\ [][NextSeries]_vars

\* The whole time range of the installed series.
FullRangeQuery(max_points) ==
    IF time_index = <<>> THEN <<>>
    ELSE GetVisibleData(bitrate_data, time_index, Zero,
                        RatInt(time_index[Len(time_index)]), max_points)

\* C27: whenever no analysis is active, thumbnail_data is what
\* get_visible_data returns for the whole time range with max_points = 400;
\* thumbnail_data is written once per installed series (from empty, by the
\* analysis thread that installed the series) and is emptied in the step
\* that discards the series.
C27_ThumbnailIsFullRangeQuery ==
    /\ [](~analyzing => thumbnail_data = FullRangeQuery(MaxThumbPoints))
    /\ [][(thumbnail_data' # thumbnail_data)
              => \/ thumbnail_data' = <<>> /\ bitrate_data' = <<>>
                 \/ /\ thumbnail_data = <<>>
                    /\ bitrate_data' = bitrate_data
                    /\ \E i \in Thread : a_pc[i] = "install_thumb"]_vars
    /\ [][(bitrate_data # <<>> /\ bitrate_data' # bitrate_data)
              => thumbnail_data' = <<>>]_vars

\* The analysis of a long recording has ended: the overview holds 400 of
\* its samples.
C27_Witness ==
    /\ ~analyzing
    /\ Len(bitrate_data) > MaxThumbPoints
    /\ Len(thumbnail_data) = MaxThumbPoints
    /\ thumbnail_data = FullRangeQuery(MaxThumbPoints)

\* What one call of calculate_bitrate_parallel returns for a file.
SeriesOf(video) ==
    IF \E r \in LongRecording : video = LongVideo(r[1], r[2])
    THEN LongResult(CHOOSE r \in LongRecording : video = LongVideo(r[1], r[2]))
    ELSE CalculateBitrateParallel(video.packets, video.duration, AppWindowSize,
                                  TotalCores)

\* C28: bitrate_data is empty or the complete result of one compute call,
\* the one for the current file: it changes only from a series to empty
\* (a new analysis starts) or from empty to a series (the result is
\* installed), and after an analysis that ended without a result it is
\* empty.
C28_SeriesWholesale ==
    /\ [](bitrate_data = <<>> \/ bitrate_data = SeriesOf(video_path))
    /\ [][(bitrate_data' # bitrate_data)
              => (bitrate_data = <<>> \/ bitrate_data' = <<>>)]_vars
    /\ []((~analyzing /\ video_path.duration = 0) => bitrate_data = <<>>)

\* A second file has been analysed: its series has taken the place of the
\* one of the long recording.
C28_Witness ==
    /\ ~analyzing
    /\ video_path \in AppVideo
    /\ bitrate_data # <<>>
    /\ bitrate_data = SeriesOf(video_path)

\* An analysis that was given up (no usable duration) after one that had
\* installed a series.
C28_WitnessAborted ==
    /\ ~analyzing
    /\ video_path.chosen
    /\ video_path.duration = 0
    /\ bitrate_data = <<>>

\* A session on a host without affinity scheduling with the analysis thread
\* statement by statement, the redraws it queues, and the zoom buttons and
\* reset_view of the control thread.
NextInstall ==
    \/ SelectVideo
    \/ OnWindowChanged
    \/ RunAfter
    \/ \E i \in Thread : AnalyzeRun(i)
    \/ \E i \in Thread : InstallData(i)
    \/ \E i \in Thread : InstallIndex(i)
    \/ \E i \in Thread : InstallThumb(i)
    \/ \E i \in Thread : Finally(i)
    \/ \E i \in Thread : AnaEnable(i)
    \/ \E factor \in ZoomFactor : Zoom(factor)
    \/ ResetView

SpecInstall == InitView /\ [][NextInstall]_vars

\* time_index is the list of the times of bitrate_data.
IndexMatchesSeries ==
    /\ Len(time_index) = Len(bitrate_data)
    /\ \A i \in 1..Len(time_index) : time_index[i] = bitrate_data[i][1]

\* C37: whenever the control thread reads the series to draw it (zoom with
\* its draw_chart and get_visible_data, or a queued draw_chart),
\* time_index has the length of bitrate_data and holds the times of its
\* samples, also while the analysis thread is installing a new result.
C37_ReadsSeeMatchingIndex ==
    [][((\E factor \in ZoomFactor : Zoom(factor))
          \/ (ResetView /\ bitrate_data # <<>>)
          \/ (RunAfter /\ Head(after_queue) = "draw_chart" /\ bitrate_data # <<>>))
        => IndexMatchesSeries]_vars

----------------------------------------------------------------------------
(* Engine: the split into chunks                                            *)

\* The largest number of time points and the largest worker budget of the
\* split; the budgets go past the number of time points.
MaxTimePoints == 56
MaxSplitWorkers == 60

\* calculate_bitrate_parallel at line 1369 on the parallel path: the time
\* points 0, 1, ... (window_size 2) are generated, there are at least 50 of
\* them, and num_workers is at least 2.
InitSplit ==
    /\ DataEmpty
    /\ QueryIdle
    /\ SessionIdle
    /\ \E n \in ParallelThreshold..MaxTimePoints :
          /\ duration = n - 1
          /\ time_points = GenTimePoints(0, 1, n - 1)
    /\ num_workers \in 2..MaxSplitWorkers
    /\ packets = <<Pkt(PtsOf(0), 1000)>>
    /\ window_size = 2
    /\ e_pc = "split"
    /\ frame_data = SortByTime(FrameData(packets))
    /\ chunks = <<>>
    /\ futures = <<>>
    /\ results = <<>>
    /\ gather_i = 0
    /\ returned = <<>>
    /\ raised = FALSE
    /\ path = "none"

\* lines 1372-1375: the chunks are cut from time_points.
Split ==
    /\ e_pc = "split"
    /\ e_pc' = "pool"
    /\ chunks' = MakeChunks(time_points, num_workers)
    /\ UNCHANGED <<packets, duration, window_size, num_workers, frame_data,
                   time_points, futures, results, gather_i, returned, raised, path>>
    /\ UNCHANGED nonEngineVars

SpecSplit == InitSplit /\ [][Split]_vars

\* The number of time points in the chunks before chunk c.
RECURSIVE ChunkOffset(_, _)
ChunkOffset(chs, c) ==
    IF c <= 1 THEN 0 ELSE ChunkOffset(chs, c - 1) + Len(chs[c - 1])

\* C32: the chunks are an order-preserving partition of time_points: each
\* chunk is non-empty and is the run of time_points that follows the chunks
\* before it, and together the chunks have every time point once.
C32_ChunksPartition ==
    (e_pc = "pool")
        => /\ \A c \in 1..Len(chunks) :
                /\ chunks[c] # <<>>
                /\ chunks[c] = SubSeq(time_points, ChunkOffset(chunks, c) + 1,
                                      ChunkOffset(chunks, c) + Len(chunks[c]))
           /\ ChunkOffset(chunks, Len(chunks) + 1) = Len(time_points)

\* A budget above the number of time points: every chunk is one time point.
C32_Witness ==
    /\ e_pc = "pool"
    /\ num_workers > Len(time_points)
    /\ Len(chunks) = Len(time_points)
    /\ \A c \in 1..Len(chunks) : chunks[c] = <<time_points[c]>>

\* A budget that does not divide the number of time points: the last chunk
\* is shorter than the others.
C32_WitnessShortTail ==
    /\ e_pc = "pool"
    /\ Len(chunks) > 2
    /\ Len(chunks[Len(chunks)]) < Len(chunks[1])

----------------------------------------------------------------------------
(* Session: an analysis run from its start to its end                       *)

\* The files of AppVideo and a recording of MaxDuration seconds, whose 50
\* time points put the compute call on the parallel path.
RunVideo ==
    AppVideo \cup
    { [chosen |-> TRUE, duration |-> MaxDuration,
       packets |-> <<Pkt(PtsOf(0), 1000), Pkt(PtsOf(2), 3000)>>] }

\* (variant: the early returns of lines 1093-1095 and 1111-1113 end the
\* thread without the finally block)
RunProbeReturnsPastCleanup(i) ==
    /\ a_pc[i] = "run"
    /\ e_pc = "idle"
    /\ \/ /\ a_pc' = [a_pc EXCEPT ![i] = "finally"]
          /\ UNCHANGED engineVars
       \/ /\ ~(video_path.duration > 0 /\ video_path.packets # <<>>)
          /\ a_pc' = Without(a_pc, i, "none")
          /\ UNCHANGED engineVars
       \/ /\ video_path.duration > 0 /\ video_path.packets # <<>>
          /\ a_pc' = [a_pc EXCEPT ![i] = "compute"]
          /\ packets' = video_path.packets
          /\ duration' = video_path.duration
          /\ window_size' = AppWindowSize
          /\ num_workers' = NumWorkers
          /\ e_pc' = "call"
          /\ UNCHANGED <<frame_data, time_points, chunks, futures, results,
                         gather_i, returned, raised, path>>
    /\ UNCHANGED <<schedVars, is_minimized, use_e_cores_when_minimized,
                   analyzing, video_path, select_btn, window_combo, c_pc, c_set,
                   c_handler, a_result, after_queue>>
    /\ UNCHANGED <<viewVars, dataVars, queryVars, workerVars>>

\* _analyze_thread, lines 1089-1124, up to the call of
\* calculate_bitrate_parallel: ffprobe is run (get_video_info,
\* get_packets_data).  Either a helper raises (the except branch, lines
\* 1134-1137), or there is no usable duration or no packet (the returns of
\* lines 1093-1095, 1111-1113), or the compute call is entered.
RunProbe(i) ==
    /\ a_pc[i] = "run"
    /\ e_pc = "idle"
    /\ \/ /\ a_pc' = [a_pc EXCEPT ![i] = "finally"]
          /\ UNCHANGED engineVars
       \/ /\ ~(video_path.duration > 0 /\ video_path.packets # <<>>)
          /\ a_pc' = [a_pc EXCEPT ![i] = "finally"]
          /\ UNCHANGED engineVars
       \/ /\ video_path.duration > 0 /\ video_path.packets # <<>>
          /\ a_pc' = [a_pc EXCEPT ![i] = "compute"]
          /\ packets' = video_path.packets
          /\ duration' = video_path.duration
          /\ window_size' = AppWindowSize
          /\ num_workers' = NumWorkers
          /\ e_pc' = "call"
          /\ UNCHANGED <<frame_data, time_points, chunks, futures, results,
                         gather_i, returned, raised, path>>
    /\ UNCHANGED <<schedVars, is_minimized, use_e_cores_when_minimized,
                   analyzing, video_path, select_btn, window_combo, c_pc, c_set,
                   c_handler, a_result, after_queue>>
    /\ UNCHANGED <<viewVars, dataVars, queryVars, workerVars>>

\* lines 1124-1132 when calculate_bitrate_parallel has returned: the series,
\* the index and the overview are installed and the redraws queued; the
\* locals of the call are gone.
RunInstall(i) ==
    /\ a_pc[i] = "compute"
    /\ e_pc = "done"
    /\ Len(after_queue) + 2 <= MaxPending
    /\ bitrate_data' = returned
    /\ time_index' = TimesOf(returned)
    /\ thumbnail_data' = PrepareThumbnailData(returned)
    /\ after_queue' = after_queue \o <<"draw_chart", "draw_thumbnail">>
    /\ a_pc' = [a_pc EXCEPT ![i] = "finally"]
    /\ packets' = <<>>
    /\ duration' = 0
    /\ window_size' = 2
    /\ num_workers' = 1
    /\ e_pc' = "idle"
    /\ frame_data' = <<>>
    /\ time_points' = <<>>
    /\ chunks' = <<>>
    /\ futures' = <<>>
    /\ results' = <<>>
    /\ gather_i' = 0
    /\ returned' = <<>>
    /\ UNCHANGED <<raised, path>>
    /\ UNCHANGED <<schedVars, is_minimized, use_e_cores_when_minimized,
                   analyzing, video_path, select_btn, window_combo, c_pc, c_set,
                   c_handler, a_result>>
    /\ UNCHANGED <<viewVars, queryVars, workerVars>>

\* The analysis thread around the steps of its compute call.
RunThread(i) ==
    \/ RunProbe(i)
    \/ RunInstall(i)
    \/ Finally(i)
    \/ AnaEnable(i)

\* The worker of the chunk whose future.result() is awaited finishes.  (The
\* loop of lines 1393-1396 reads one future at a time, so for the end of the
\* call the order in which the other workers finish makes no difference;
\* SpecEngine follows every order.)
AwaitedChunkDone ==
    /\ e_pc = "gather"
    /\ ChunkDone(gather_i)

NextRun ==
    \/ SelectVideoFrom(RunVideo)
    \/ OnWindowChanged
    \/ RunAfter
    \/ \E i \in Thread : RunThread(i)
    \/ Enter
    \/ Submit
    \/ PoolFails
    \/ AwaitedChunkDone
    \/ Gather
    \/ GatherError

\* Weak fairness of the steps of the compute call: the thread inside
\* calculate_bitrate_parallel goes on, creating the pool ends (Submit) or
\* fails (PoolFails), and future.result() returns (Gather) or raises
\* (GatherError).  For Enter and for Gather \/ GatherError the formula
\* WF_vars(A), which is []<>~ENABLED <<A>>_vars \/ []<><<A>>_vars, is written
\* out with the guard of the action in the place of ENABLED: Enter can be
\* taken exactly when e_pc = "call", and one of Gather and GatherError
\* exactly when e_pc = "gather".
EngineFair ==
    /\ []<>(e_pc # "call") \/ []<><<Enter>>_vars
    /\ WF_vars(Submit \/ PoolFails)
    /\ []<>(e_pc # "gather") \/ []<><<Gather \/ GatherError>>_vars

\* Weak fairness of RunAfter, written out in the same way: Tk's main loop
\* runs a queued callback whenever the UI thread is in no handler.
CallbacksFair ==
    []<>(c_pc # "idle" \/ after_queue = <<>>) \/ []<><<RunAfter>>_vars

\* The analysis thread is scheduled by the operating system.
SpecRun ==
    /\ InitView
    /\ [][NextRun]_vars
    /\ CallbacksFair
    /\ \A i \in Thread : WF_vars(RunThread(i))
    /\ EngineFair

\* C31: every analysis run that is started ends: the compute call returns,
\* the analyzing flag is cleared and both controls are enabled again, on
\* every path through _analyze_thread.
C31_RunEnds ==
    /\ (e_pc = "call") ~> (e_pc = "done")
    /\ analyzing ~> ~analyzing
    /\ (select_btn = "disabled") ~> (select_btn = "normal")
    /\ (window_combo = "disabled") ~> (window_combo = "readonly")

\* A run on the parallel path has ended after a worker failed, and the
\* controls are enabled.
C31_Witness ==
    /\ ~analyzing
    /\ path = "fallback"
    /\ Len(bitrate_data) >= ParallelThreshold
    /\ select_btn = "normal"
    /\ window_combo = "readonly"
    /\ \A i \in Thread : a_pc[i] = "none"

----------------------------------------------------------------------------
(* Session: wheel zoom and thumbnail drags on a long series                *)

\* The files of RunVideo, analysed on a host without affinity scheduling,
\* with the mouse wheel and the thumbnail's press, drag and release.
NextPan ==
    \/ SelectVideoFrom(RunVideo)
    \/ RunAfter
    \/ \E i \in Thread : AnalyzeThreadUnmanaged(i)
    \/ \E factor \in WheelFactor, x \in ChartX : OnMouseWheel(factor, x)
    \/ \E x \in ThumbX : OnThumbnailPress(x)
    \/ \E x \in ThumbX : OnThumbnailDrag(x)
    \/ OnThumbnailRelease
    \/ PendingChartDraw

SpecPan == InitView /\ [][NextPan]_vars

\* C34: the chart follows the viewport: whenever no drag is in progress and
\* no redraw is pending (neither the timer of a drag nor a draw_chart queued
\* by an analysis run) on a non-empty series, the view times of chart_info
\* are view_start * max_time and view_end * max_time.
C34_ChartAtViewWhenQuiet ==
    (/\ ~thumbnail_dragging
     /\ pending_chart_draw # "pending"
     /\ ~DrawQueued
     /\ bitrate_data # <<>>)
        => ChartAtView

----------------------------------------------------------------------------
(* Engine: time points and windows in binary64, window_size 0.1            *)

\* A binary64 value v with 0 <= v < 8 that is 0 or at least 2^-5 is a whole
\* number of units of 2^-57; it is written <<hi, lo>> for
\* hi * F64Base + lo units.
F64Base == 2 ^ 30

\* The timestamps and the duration are the texts "0.000000", "0.050000",
\* ...: text k is k * 0.05 written with six decimals, as ffprobe prints it.
MaxTick == 16
DurationTick == 10

\* float(text) for text k = 0, 1, ..., 24: the binary64 value nearest to the
\* decimal number.
F64OfTick ==
    <<
       <<0, 0>>,   \* "0.00"
       <<6710886, 429496730>>,   \* "0.05"
       <<13421772, 858993460>>,   \* "0.10"
       <<20132659, 214748364>>,   \* "0.15"
       <<26843545, 644245096>>,   \* "0.20"
       <<33554432, 0>>,   \* "0.25"
       <<40265318, 429496728>>,   \* "0.30"
       <<46976204, 858993456>>,   \* "0.35"
       <<53687091, 214748368>>,   \* "0.40"
       <<60397977, 644245096>>,   \* "0.45"
       <<67108864, 0>>,   \* "0.50"
       <<73819750, 429496736>>,   \* "0.55"
       <<80530636, 858993456>>,   \* "0.60"
       <<87241523, 214748368>>,   \* "0.65"
       <<93952409, 644245088>>,   \* "0.70"
       <<100663296, 0>>,   \* "0.75"
       <<107374182, 429496736>>,   \* "0.80"
       <<114085068, 858993456>>,   \* "0.85"
       <<120795955, 214748368>>,   \* "0.90"
       <<127506841, 644245088>>,   \* "0.95"
       <<134217728, 0>>,   \* "1.00"
       <<140928614, 429496736>>,   \* "1.05"
       <<147639500, 858993472>>,   \* "1.10"
       <<154350387, 214748352>>,   \* "1.15"
       <<161061273, 644245088>>    \* "1.20"
    >>

F64OfText(k) == F64OfTick[k + 1]

RECURSIVE BitLength(_)
BitLength(n) ==
    IF n = 0 THEN 0 ELSE 1 + BitLength(n \div 2)

\* The exact number x rounded to binary64: 53 significant bits, to nearest,
\* ties to the even mantissa.
F64Round(x) ==
    LET len == IF x[1] = 0 THEN BitLength(x[2]) ELSE 30 + BitLength(x[1])
        q == len - 53
    IN  IF q <= 0 THEN x
        ELSE LET rest == x[2] % (2 ^ q)
                 odd == (x[2] \div (2 ^ q)) % 2 = 1
                 down == x[2] - rest
                 up == down + 2 ^ q
             IN  IF rest > 2 ^ (q - 1) \/ (rest = 2 ^ (q - 1) /\ odd)
                 THEN <<x[1] + up \div F64Base, up % F64Base>>
                 ELSE <<x[1], down>>

\* a + b of two Python floats
F64Add(a, b) ==
    F64Round(<<a[1] + b[1] + (a[2] + b[2]) \div F64Base, (a[2] + b[2]) % F64Base>>)

F64Leq(a, b) ==
    a[1] < b[1] \/ (a[1] = b[1] /\ a[2] <= b[2])

F64Lt(a, b) ==
    ~F64Leq(b, a)

\* step = window_size / 2 (line 1359): halving 0.1 is exact.
F64Step == F64OfText(1)

\* sum(size * 8 for pts, size in frame_data if t <= pts < t + window_size)
RECURSIVE F64TotalBits(_, _, _)
F64TotalBits(fd, t, w) ==
    IF fd = <<>> THEN 0
    ELSE (IF F64Leq(t, Head(fd)[1]) /\ F64Lt(Head(fd)[1], F64Add(t, w))
          THEN Head(fd)[2] * 8 ELSE 0)
         + F64TotalBits(Tail(fd), t, w)

\* The packets of the binary64 run: 1000 bytes at text k.
TickPacket == {[tick |-> k, size |-> 1000] : k \in 0..MaxTick}

\* calculate_bitrate_parallel at line 1359 with window_size = float("0.1")
\* (the default of the combo box), one or two packets and a duration of
\* 0.5 s: frame_data is built and sorted, and there are too few time points
\* for the pool.
InitFloat ==
    /\ DataEmpty
    /\ QueryIdle
    /\ SessionIdle
    /\ packets \in SeqsUpTo(TickPacket, 2) \ {<<>>}
    /\ duration = F64OfText(DurationTick)
    /\ window_size = F64OfText(2)
    /\ num_workers = 1
    /\ e_pc = "points64"
    /\ LET sorted == SortByTime([i \in 1..Len(packets) |->
                                   <<packets[i].tick, packets[i].size>>])
       IN  frame_data = [i \in 1..Len(sorted) |-> <<F64OfText(sorted[i][1]), sorted[i][2]>>]
    /\ time_points = <<>>
    /\ chunks = <<>>
    /\ futures = <<>>
    /\ results = <<>>
    /\ gather_i = 0
    /\ returned = <<>>
    /\ raised = FALSE
    /\ path = "serial"

\* lines 1361-1364: one test of `while t <= actual_duration`, with the
\* append and `t += step` when it holds.  t is 0.0 before the first
\* iteration and the last time point plus step after it.
FloatPoint ==
    /\ e_pc = "points64"
    /\ LET t == IF time_points = <<>> THEN <<0, 0>>
                ELSE F64Add(time_points[Len(time_points)], F64Step)
           max_frame_time == frame_data[Len(frame_data)][1]
           actual_duration == IF F64Leq(max_frame_time, duration) THEN duration
                              ELSE max_frame_time
       IN  IF F64Leq(t, actual_duration)
           THEN time_points' = Append(time_points, t) /\ e_pc' = e_pc
           ELSE time_points' = time_points /\ e_pc' = "samples64"
    /\ UNCHANGED <<packets, duration, window_size, num_workers, frame_data,
                   chunks, futures, results, gather_i, returned, raised, path>>
    /\ UNCHANGED nonEngineVars

\* lines 1408-1414: one iteration of the loop of _calculate_bitrate_single,
\* and its return after the last one.  A sample is kept as (t + window_size
\* / 2, total_bits): the division by window_size and 1000 is left undone.
FloatSample ==
    /\ e_pc = "samples64"
    /\ IF Len(results) < Len(time_points)
       THEN LET t == time_points[Len(results) + 1]
            IN  /\ results' = Append(results, <<F64Add(t, F64Step),
                                                F64TotalBits(frame_data, t, window_size)>>)
                /\ UNCHANGED <<e_pc, returned>>
       ELSE /\ e_pc' = "done"
            /\ returned' = results
            /\ UNCHANGED results
    /\ UNCHANGED <<packets, duration, window_size, num_workers, frame_data,
                   time_points, chunks, futures, gather_i, raised, path>>
    /\ UNCHANGED nonEngineVars

NextFloat ==
    \/ FloatPoint
    \/ FloatSample

SpecFloat == InitFloat /\ [][NextFloat]_vars

\* The bits the Series should hold: every packet twice, a packet before the
\* first step once.
RECURSIVE BitsCountedTwice(_)
BitsCountedTwice(fd) ==
    IF fd = <<>> THEN 0
    ELSE (IF F64Lt(Head(fd)[1], F64Step) THEN 1 ELSE 2) * Head(fd)[2] * 8
         + BitsCountedTwice(Tail(fd))

RECURSIVE BitsOfSeries(_)
BitsOfSeries(series) ==
    IF series = <<>> THEN 0 ELSE Head(series)[2] + BitsOfSeries(Tail(series))

\* C39: with windows that overlap by half no packet is dropped or counted
\* too often: a packet with timestamp >= window_size / 2 is in exactly two
\* windows and an earlier one in exactly one, so the bits of all samples
\* together are twice the bits of the packets less the bits of the packets
\* before window_size / 2.
C39_EveryPacketTwice ==
    e_pc = "done" => BitsOfSeries(returned) = BitsCountedTwice(frame_data)

\* C3: after any sequence of zoom, wheel, thumbnail press / drag / release,
\* reset_view and start_analysis events,
\* 0 <= view_start < view_end <= 1 and view_end - view_start >= min_view_range.
C3_ViewportValid ==
    /\ RatLeq(Zero, view_start)
    /\ RatLt(view_start, view_end)
    /\ RatLeq(view_end, One)
    /\ RatLeq(MinViewRange, RatSub(view_end, view_start))

====
